---- MODULE Spec2Model ----
(***************************************************************************)
(* Token broker of the A2A reference implementation: TokenBroker           *)
(* (src/src/auth/token_broker.py) on top of AsgardeoClient                 *)
(* (src/src/auth/asgardeo.py).  Coroutines are modelled as tasks; every    *)
(* await on the network (client.post, the client's async-with exit) is a   *)
(* point where another task may run.                                       *)
(***************************************************************************)
EXTENDS Integers, Sequences, FiniteSets, TLC

\* ------------------------------------------------------------------ bounds
MaxTime == 1
MaxCalls == 2
MaxSessions == 2
ShortLife == 1

\* expires_in when the provider's response carries none
DefaultExpiresIn == 3600
TokenResponseExpiresIn == 3600

\* ------------------------------------------------------------ Python values
\* Optional[X] for structured X: <<>> is None, <<x>> is a value.
None == <<>>
Some(x) == <<x>>
\* Optional[str]: the string "None" stands for Python's None.
NoneStr == "None"
Truthy(s) == s # NoneStr /\ s # ""
\* a or b
Or(a, b) == IF Truthy(a) THEN a ELSE b
\* dict.get(k) on a dict of strings
Get(d, k) == IF k \in DOMAIN d THEN d[k] ELSE NoneStr
EmptyDict == [k \in {} |-> NoneStr]

Procs == {1, 2}

\* ------------------------------------------------------------ configuration
\* Settings (environment): the orchestrator's client and agent identity.
orchestrator_client_id == "orch-client"
orchestrator_client_secret == "orch-secret"
orchestrator_agent_id == "orch-agent"
orchestrator_agent_secret == "orch-pw"
app_callback_url == "http://localhost:8000/callback"

\* config.yaml "agents": the worker agents' entries are complete, noid_agent is
\* an entry without agent_id; any other key is absent.
agents_config ==
  [hr_agent |-> [agent_id |-> "hr-id", agent_secret |-> "hr-pw"],
   it_agent |-> [agent_id |-> "it-id", agent_secret |-> "it-pw"],
   approval_agent |-> [agent_id |-> "approval-id", agent_secret |-> "approval-pw"],
   booking_agent |-> [agent_id |-> "booking-id", agent_secret |-> "booking-pw"],
   noid_agent |-> [agent_id |-> NoneStr, agent_secret |-> "x-pw"]]

\* A token value: its kind and the number of the call it was issued in.
Tok(kind, n) == [kind |-> kind, n |-> n]
NoTok == Tok("none", 0)
\* exchange_token_for_agent(source_token, agent_key, target_audience, target_scopes)
ExchangeInputs ==
  {[source_token |-> Tok("source", 1), agent_key |-> "hr_agent",
    target_audience |-> "hr-api", target_scopes |-> <<"hr:write">>],
   [source_token |-> Tok("source", 2), agent_key |-> "it_agent",
    target_audience |-> "it-api", target_scopes |-> <<"it:read", "it:write">>],
   [source_token |-> Tok("source", 1), agent_key |-> "noid_agent",
    target_audience |-> "hr-api", target_scopes |-> <<"hr:write">>],
   [source_token |-> Tok("source", 2), agent_key |-> "ghost_agent",
    target_audience |-> "it-api", target_scopes |-> <<"it:read", "it:write">>]}
ScopeInputs == {<<>>, <<"hr:read">>}
Codes == {"abc123"}

\* ------------------------------------------------------------------- PKCE
\* generate_pkce(): a fresh verifier and its S256 challenge.
S256(verifier) == <<"S256", verifier>>
generate_pkce(seed) == [verifier |-> <<"verifier", seed>>,
                        challenge |-> S256(<<"verifier", seed>>)]

\* -------------------------------------------------------- provider replies
\* INITIATE: a 302 whose location query carries flowId / sessionDataKey / neither,
\* or another status with a JSON body carrying flowId / flow_id / neither.
InitiateResponses ==
  {[status |-> 302, query |-> ("flowId" :> "F1"), json |-> EmptyDict],
   [status |-> 302, query |-> ("sessionDataKey" :> "F1"), json |-> EmptyDict],
   [status |-> 302, query |-> EmptyDict, json |-> EmptyDict],
   [status |-> 200, query |-> EmptyDict, json |-> ("flowId" :> "F1")],
   [status |-> 200, query |-> EmptyDict, json |-> ("flow_id" :> "F1")],
   [status |-> 200, query |-> EmptyDict, json |-> EmptyDict],
   [status |-> 400, query |-> EmptyDict, json |-> ("error" :> "invalid_request")]}

\* AUTHENTICATE: 302 with / without code; 200 with code (a string or JSON null),
\* authorizationCode, redirectUrl (with / without a code in it) or none of them; 401.
AuthenticateResponses ==
  {[status |-> 302, query |-> ("code" :> "AC1"), json |-> EmptyDict],
   [status |-> 302, query |-> EmptyDict, json |-> EmptyDict],
   [status |-> 200, query |-> EmptyDict, json |-> ("code" :> "AC1")],
   [status |-> 200, query |-> EmptyDict, json |-> ("code" :> NoneStr)],
   [status |-> 200, query |-> EmptyDict, json |-> ("authorizationCode" :> "AC1")],
   [status |-> 200, query |-> EmptyDict, json |-> ("redirectUrl" :> "cb?code=AC1")],
   [status |-> 200, query |-> EmptyDict, json |-> ("redirectUrl" :> "cb?error=x")],
   [status |-> 200, query |-> EmptyDict, json |-> ("flowStatus" :> "INCOMPLETE")],
   [status |-> 401, query |-> EmptyDict, json |-> EmptyDict]}

\* Token endpoint: 200 with an access_token, an optional expires_in and a scope
\* that is a string, absent or JSON null; 200 without access_token; 400.
TokenResponses ==
  {[status |-> 200, access_token |-> TRUE, expires_in |-> Some(ShortLife), scope |-> "openid hr:read"],
   [status |-> 200, access_token |-> TRUE, expires_in |-> None, scope |-> "openid hr:read"],
   [status |-> 200, access_token |-> TRUE, expires_in |-> Some(ShortLife), scope |-> "absent"],
   [status |-> 200, access_token |-> TRUE, expires_in |-> Some(ShortLife), scope |-> "null"],
   [status |-> 200, access_token |-> FALSE, expires_in |-> None, scope |-> "absent"],
   [status |-> 400, access_token |-> FALSE, expires_in |-> None, scope |-> "absent"]}

\* parse_qs(urlparse(url).query).get("code", [None])[0]
ParseCode(url) == IF url = "cb?code=AC1" THEN "AC1" ELSE NoneStr

\* " ".join(scopes)
RECURSIVE Join(_)
Join(scopes) ==
  IF scopes = <<>> THEN ""
  ELSE IF Len(scopes) = 1 THEN scopes[1]
  ELSE scopes[1] \o " " \o Join(Tail(scopes))

\* str.split() of the scope strings above
Split(s) == CASE s = "openid hr:read" -> <<"openid", "hr:read">>
              [] OTHER -> <<>>

\* ------------------------------------------------------------------ state
VARIABLES
  now,          \* datetime.utcnow()
  exchangerSet, \* settings.token_exchanger_client_id / _secret are configured
  asgActor,     \* AsgardeoClient._actor_token
  brokerActor,  \* TokenBroker._actor_token
  sessions,     \* TokenBroker._sessions, session ids are 1..Len(sessions)
  audit_log,    \* TokenBroker._audit_log
  calls,        \* number of broker coroutines started so far
  task,         \* each caller's running coroutine, or its last outcome
  issuedActor,  \* history: the last actor token the provider issued per sub-agent
  failedCallbacks, \* history: the session ids a handle_callback has raised a provider error for
  onboarding,   \* POST /api/onboard: the request's outcome and the workflow run it started
  api_calls,    \* history: the requests the worker agents have sent to the downstream APIs
  objects,      \* the Task objects made so far; a reference is an index, 0 is None
  _tasks,       \* TaskExecutor._tasks: the reference stored under each task id
  rpc,          \* each caller's running handle_task_send, or its last outcome
  sends,        \* number of tasks/send calls started so far
  orch          \* the orchestrator's LangGraph run: its node and OrchestratorState

\* The onboarding endpoint and its workflow.
onboardVars == <<onboarding, api_calls>>
\* An agent's TaskExecutor.
executorVars == <<objects, _tasks, rpc, sends>>
\* The application built on the broker.
appVars == <<onboardVars, executorVars, orch>>

vars == <<now, exchangerSet, asgActor, brokerActor, sessions, audit_log, calls,
          task, issuedActor, failedCallbacks, appVars>>

token_exchanger_client_id == IF exchangerSet THEN "tx-client" ELSE NoneStr
token_exchanger_client_secret == IF exchangerSet THEN "tx-secret" ELSE NoneStr

SubAgentIds == {"hr-id", "it-id"}

\* A request to the identity provider; unused fields keep these defaults.
NoReq == [kind |-> "", client_id |-> NoneStr, client_secret |-> NoneStr,
          code |-> NoneStr, code_verifier |-> <<>>, code_challenge |-> <<>>,
          flowId |-> NoneStr, username |-> NoneStr, password |-> NoneStr,
          actor_token |-> NoTok, subject_token |-> NoTok,
          subject_token_type |-> NoneStr, actor_token_type |-> NoneStr,
          audience |-> NoneStr, scope |-> NoneStr, grant_type |-> ""]

\* A coroutine's frame: its arguments, the locals still in use, the request it
\* awaits the answer of (req), and its outcome (err, ret).
Idle == [op |-> "none", pc |-> "idle", call |-> 0,
         code |-> "", state |-> 0,
         source_token |-> NoTok, agent_key |-> "", target_audience |-> "",
         target_scopes |-> <<>>,
         client_id |-> "", client_secret |-> "", agent_id |-> "",
         pkce |-> generate_pkce(<<"flow", 0>>),
         req |-> NoReq, used_actor |-> None,
         actor |-> None, resp |-> None,
         err |-> "", ret |-> None]

\* A caller may start a coroutine when it runs none; callers are interchangeable,
\* so a new coroutine is started by the first caller that is free.
Free(p) == task[p].pc \in {"idle", "done"}
Ready(p) == Free(p) /\ \A q \in Procs : Free(q) => p <= q

\* client.post(...): the request is on the wire and the coroutine awaits the answer.
Send(t, pc, r) == [t EXCEPT !.pc = pc, !.req = r]
\* The answer has arrived: the request is over.
Answered(t, pc) == [t EXCEPT !.pc = pc, !.req = NoReq, !.used_actor = None]

\* A finished coroutine: its frame is gone, the caller holds what it passed and
\* the exception or the return value.
Finished(t) == [Idle EXCEPT !.op = t.op, !.call = t.call, !.pc = "done",
                            !.state = t.state, !.agent_key = t.agent_key]
Raise(t, e) == [Finished(t) EXCEPT !.err = e]
Return(t, v) == [Finished(t) EXCEPT !.ret = Some(v)]

\* UserSession(session_id=..., pkce=...)
UserSession(id) == [session_id |-> id, user_sub |-> NoneStr,
                    pkce |-> generate_pkce(<<"session", id>>),
                    delegated_token |-> None, token_expires_at |-> None]

\* TokenBroker._log_audit
AuditEntry(operation, user_sub, target_service, scopes, success, error) ==
  [operation |-> operation, user_sub |-> user_sub,
   actor_sub |-> orchestrator_agent_id, target_service |-> target_service,
   scopes |-> scopes, success |-> success, error |-> error]
\* Mutant of _log_audit: the log keeps only the newest entry.
LogAuditKeepingNewest(operation, user_sub, target_service, scopes, success, error) ==
  <<AuditEntry(operation, user_sub, target_service, scopes, success, error)>>

_log_audit(operation, user_sub, target_service, scopes, success, error) ==
  Append(audit_log, AuditEntry(operation, user_sub, target_service, scopes,
                               success, error))

\* ------------------------------------------------------------ onboarding
MaxRequests == 1

\* create_initial_state: the OnboardingState of a new run.  The fields no node
\* and no routing function reads (request_id, raw_request, actor_sub,
\* pending_actions, scheduled_deliveries, audit_log) are not kept.
create_initial_state(user_sub, composite_token) ==
  [parsed_request |-> None, user_sub |-> user_sub,
   composite_token |-> composite_token, risk_assessment |-> None,
   employee_id |-> NoneStr, approval_requests |-> <<>>,
   approvals_received |-> <<>>, provisioned_services |-> <<>>,
   scheduled_tasks |-> <<>>, current_phase |-> "intake",
   completed_actions |-> <<>>, blocking_approvals |-> <<>>,
   status |-> "in_progress", error |-> NoneStr, final_report |-> FALSE]

\* No request has been made: requests counts the POSTs, session_id and response
\* are those of the last one, node is the workflow node that runs (pc: where in
\* it), state the OnboardingState, executed the nodes that have run.
\* token, todo, acc and caller are a worker agent's locals: the exchanged
\* token, the API calls still to make (the first one awaits its answer), the
\* results so far and the broker coroutine it awaits.
NoRun == [requests |-> 0, session_id |-> None, response |-> 0,
          node |-> "none", pc |-> "", state |-> create_initial_state(NoneStr, NoTok),
          token |-> NoTok, todo |-> <<>>, acc |-> <<>>, caller |-> 0,
          executed |-> <<>>]

\* -------------------------------------------------------------- executor
MaxSends == 3

TaskIds == {"task-a", "task-b"}

\* Message(role=..., parts=[TextPart(text=...)])
Message(role, text) == [role |-> role, text |-> text]
\* TaskStatus(state=..., message=...); Message("", "") stands for no message
TaskStatus(state, message) == [state |-> state, message |-> message]
\* Task(id=..., status=..., history=...)
Task(id, status, history) == [id |-> id, status |-> status, history |-> history]

\* A handle_task_send coroutine: its params, the local existing_task, what
\* execute did and the task it returned; prior is the history the stored task
\* had when the call came in.
NoSend == [pc |-> "idle", id |-> "", message |-> Message("", ""), existing |-> 0,
           prior |-> <<>>, outcome |-> "", ret |-> 0]

\* ---------------------------------------------------------- orchestrator
MaxPlan == 3

\* run_orchestrator_workflow's initial_state; final_response is kept as the
\* list of summaries that "\n\n".join makes the text of.
initial_state(user_query, access_token) ==
  [user_query |-> user_query, access_token |-> access_token,
   available_agents |-> <<>>, task_plan |-> <<>>, current_task_index |-> 0,
   task_results |-> <<>>, approval_status |-> NoneStr,
   messages |-> <<user_query>>, final_response |-> <<>>, error |-> NoneStr]

\* No workflow has been run; requested is the history of the token exchanges
\* execute_task_node has asked the broker for.
NoOrch == [node |-> "none", state |-> initial_state("", NoTok), requested |-> <<>>]

Init ==
  /\ now = 0
  /\ exchangerSet \in BOOLEAN
  /\ asgActor = None
  /\ brokerActor = None
  /\ sessions = <<>>
  /\ audit_log = <<>>
  /\ calls = 0
  /\ task = [p \in Procs |-> Idle]
  /\ issuedActor = [a \in SubAgentIds |-> None]
  /\ failedCallbacks = {}
  /\ onboarding = NoRun
  /\ api_calls = <<>>
  /\ objects = <<>>
  /\ _tasks = [id \in TaskIds |-> 0]
  /\ rpc = [p \in Procs |-> NoSend]
  /\ sends = 0
  /\ orch = NoOrch

\* Time passes.
Tick ==
  /\ now < MaxTime
  /\ now' = now + 1
  /\ UNCHANGED <<appVars, exchangerSet, asgActor, brokerActor, sessions, audit_log, calls,
                 task, issuedActor, failedCallbacks>>

\* ---------------------------------------------------- synchronous operations
\* TokenBroker.create_session
create_session ==
  /\ Len(sessions) < MaxSessions
  /\ sessions' = Append(sessions, UserSession(Len(sessions) + 1))
  /\ UNCHANGED <<appVars, now, exchangerSet, asgActor, brokerActor, audit_log, calls, task,
                 issuedActor, failedCallbacks>>

\* TokenBroker.get_session
get_session(session_id) ==
  IF session_id \in DOMAIN sessions THEN Some(sessions[session_id]) ELSE None

\* Mutant of get_delegated_token: an unknown id is served the first session's token.
DelegatedTokenOfFirstSession(session_id) ==
  IF session_id \in DOMAIN sessions THEN sessions[session_id].delegated_token
  ELSE IF sessions # <<>> THEN sessions[1].delegated_token
  ELSE None

\* TokenBroker.get_delegated_token
get_delegated_token(session_id) ==
  IF session_id \notin DOMAIN sessions THEN None
  ELSE IF sessions[session_id].delegated_token = None THEN None
  ELSE sessions[session_id].delegated_token

\* AsgardeoClient.build_user_authorize_url
build_user_authorize_url(scopes, state, pkce) ==
  [response_type |-> "code", client_id |-> orchestrator_client_id,
   scope |-> Join(scopes \o <<"openid", "profile">>),
   redirect_uri |-> app_callback_url, state |-> state,
   code_challenge |-> pkce.challenge, code_challenge_method |-> "S256",
   requested_actor |-> orchestrator_agent_id]

\* Mutant of AuthorizationUrlResult: an unknown session id gets a URL all the same.
AuthorizationUrlForAnyId(session_id, scopes) ==
  Return([Idle EXCEPT !.op = "get_authorization_url", !.state = session_id],
         build_user_authorize_url(scopes, session_id,
                                  generate_pkce(<<"session", session_id>>)))

\* TokenBroker.get_authorization_url: the caller's outcome.
AuthorizationUrlResult(session_id, scopes) ==
  LET t == [Idle EXCEPT !.op = "get_authorization_url", !.state = session_id]
  IN IF session_id \notin DOMAIN sessions THEN Raise(t, "Session not found")
     ELSE Return(t, build_user_authorize_url(scopes, session_id,
                                             sessions[session_id].pkce))

get_authorization_url(p, session_id, scopes) ==
  /\ Ready(p)
  /\ task' = [task EXCEPT ![p] = AuthorizationUrlResult(session_id, scopes)]
  /\ UNCHANGED <<appVars, now, exchangerSet, asgActor, brokerActor, sessions, audit_log,
                 calls, issuedActor, failedCallbacks>>

\* ------------------------------------------------------ three-step flow
Returned(v) == [raised |-> FALSE, value |-> v, err |-> ""]
Raised(e) == [raised |-> TRUE, value |-> NoneStr, err |-> e]

\* AsgardeoClient._initiate_auth_flow: the flow id read from the response.
_initiate_auth_flow(resp) ==
  IF resp.status = 302
  THEN LET flow_id == Or(Get(resp.query, "flowId"),
                         Get(resp.query, "sessionDataKey"))
       IN IF Truthy(flow_id) THEN Returned(flow_id)
          ELSE Raised("flowId not found in redirect")
  ELSE Returned(Or(Get(resp.json, "flowId"), Get(resp.json, "flow_id")))

\* AsgardeoClient._authenticate_agent: the authorization code read from the response.
_authenticate_agent(resp) ==
  IF resp.status = 302
  THEN LET auth_code == Get(resp.query, "code")
       IN IF Truthy(auth_code) THEN Returned(auth_code)
          ELSE Raised("Auth code not found in redirect")
  ELSE IF resp.status = 200
  THEN IF "code" \in DOMAIN resp.json THEN Returned(resp.json["code"])
       ELSE IF "authorizationCode" \in DOMAIN resp.json
       THEN Returned(resp.json["authorizationCode"])
       ELSE IF "redirectUrl" \in DOMAIN resp.json
               /\ Truthy(ParseCode(resp.json["redirectUrl"]))
       THEN Returned(ParseCode(resp.json["redirectUrl"]))
       ELSE Raised("Auth code not found in response")
  ELSE Raised("Authentication failed")

\* The secret _authenticate_agent looks up for agent_id: config.yaml first, then
\* the orchestrator's own.
AgentSecret(agent_id) ==
  LET hits == {k \in DOMAIN agents_config : agents_config[k].agent_id = agent_id}
  IN IF hits # {} /\ Truthy(agents_config[CHOOSE k \in hits : TRUE].agent_secret)
     THEN agents_config[CHOOSE k \in hits : TRUE].agent_secret
     ELSE IF agent_id = orchestrator_agent_id THEN orchestrator_agent_secret
     ELSE NoneStr

\* expires_in of a token response, with the default of result.get("expires_in", 3600)
ExpiresIn(resp, default) ==
  IF resp.expires_in = None THEN default ELSE resp.expires_in[1]

\* AsgardeoClient._exchange_code_for_actor_token: the ActorToken built from a reply.
ActorToken(t, resp) ==
  [token |-> Tok("actor", t.call), actor_id |-> t.agent_id,
   expires_at |-> now + ExpiresIn(resp, DefaultExpiresIn)]

\* _fetch_agent_actor_token up to its first await: fresh PKCE, INITIATE is sent.
BeginFlow(t, client_id, client_secret, agent_id) ==
  LET pkce == generate_pkce(<<"flow", t.call>>)
  IN Send([t EXCEPT !.client_id = client_id, !.client_secret = client_secret,
                    !.agent_id = agent_id, !.pkce = pkce],
          "initiate",
          [NoReq EXCEPT !.kind = "initiate", !.client_id = client_id,
                        !.code_challenge = pkce.challenge])

\* Mutant of AbortFlow: a failed step starts the flow again.
AbortFlowRetrying(t, e) == BeginFlow(t, t.client_id, t.client_secret, t.agent_id)

\* The flow has ended with an error; the client's async-with block is left.
AbortFlow(t, e) == [Answered(t, "flow_exit") EXCEPT !.err = e]

\* Step 1 answered: the flow aborts, or AUTHENTICATE is sent.
AfterInitiate(t, resp) ==
  LET r == _initiate_auth_flow(resp)
  IN IF r.raised THEN AbortFlow(t, r.err)
     ELSE Send(t, "authenticate",
               [NoReq EXCEPT !.kind = "authenticate", !.flowId = r.value,
                             !.username = t.agent_id,
                             !.password = AgentSecret(t.agent_id)])

InitiateResponse(p) ==
  /\ task[p].pc = "initiate"
  /\ \E resp \in InitiateResponses :
       task' = [task EXCEPT ![p] = AfterInitiate(task[p], resp)]
  /\ UNCHANGED <<appVars, now, exchangerSet, asgActor, brokerActor, sessions, audit_log,
                 calls, issuedActor, failedCallbacks>>

\* Step 2 answered: the flow aborts, or EXCHANGE is sent.
AfterAuthenticate(t, resp) ==
  LET r == _authenticate_agent(resp)
  IN IF r.raised THEN AbortFlow(t, r.err)
     ELSE Send(t, "exchange",
               [NoReq EXCEPT !.kind = "actor_exchange",
                             !.grant_type = "authorization_code",
                             !.code = r.value, !.client_id = t.client_id,
                             !.client_secret = t.client_secret,
                             !.code_verifier = t.pkce.verifier])

AuthenticateResponse(p) ==
  /\ task[p].pc = "authenticate"
  /\ \E resp \in AuthenticateResponses :
       task' = [task EXCEPT ![p] = AfterAuthenticate(task[p], resp)]
  /\ UNCHANGED <<appVars, now, exchangerSet, asgActor, brokerActor, sessions, audit_log,
                 calls, issuedActor, failedCallbacks>>

\* Step 3 answered: raise_for_status, result["access_token"], the ActorToken.
AfterActorExchange(t, resp) ==
  IF resp.status # 200 THEN AbortFlow(t, "HTTPStatusError")
  ELSE IF ~resp.access_token THEN AbortFlow(t, "KeyError")
  ELSE [Answered(t, "flow_exit") EXCEPT !.actor = Some(ActorToken(t, resp))]

ActorExchangeResponse(p) ==
  /\ task[p].pc = "exchange"
  /\ \E resp \in TokenResponses :
       LET t == AfterActorExchange(task[p], resp)
       IN /\ task' = [task EXCEPT ![p] = t]
          /\ issuedActor' = IF t.actor = None \/ t.agent_id \notin SubAgentIds
                            THEN issuedActor
                            ELSE [issuedActor EXCEPT ![t.agent_id] = t.actor]
  /\ UNCHANGED <<appVars, now, exchangerSet, asgActor, brokerActor, sessions, audit_log,
                 calls, failedCallbacks>>

\* ------------------------------------------------------------ TokenBroker
NewCall(op) == [Idle EXCEPT !.op = op, !.call = calls + 1]

\* Mutant of CacheValid: the expiry is not looked at.
CacheValidIgnoringExpiry(slot) == slot # None

\* AsgardeoClient.get_actor_token, line 166: the cached token is served.
CacheValid(slot) == slot # None /\ slot[1].expires_at > now

\* Mutant of SlotAfterFlow: the slot is assigned whatever the flow's outcome.
SlotAssignedOnFailure(slot, t) == t.actor

\* Mutant of SlotAfterFlow: a slot that is filled is kept, the first writer wins.
SlotKeptWhenFilled(slot, t) == IF t.err = "" /\ slot = None THEN t.actor ELSE slot

\* The actor-token slot after a flow has ended: get_actor_token line 175 and
\* initialize line 66 assign only when _fetch_agent_actor_token returned.
SlotAfterFlow(slot, t) == IF t.err = "" THEN t.actor ELSE slot

\* Mutant of SendCodeExchange: the verifier of the first session is sent.
SendCodeExchangeFirstVerifier(t, actor) ==
  Send([t EXCEPT !.used_actor = Some(actor)], "code_exchange",
       [NoReq EXCEPT !.kind = "code_exchange",
                     !.grant_type = "authorization_code",
                     !.code = t.code, !.client_id = orchestrator_client_id,
                     !.client_secret = orchestrator_client_secret,
                     !.code_verifier = sessions[1].pkce.verifier,
                     !.actor_token = actor.token])

\* Mutant of SendCodeExchange: the request carries no actor token.
SendCodeExchangeWithoutActor(t, actor) ==
  Send([t EXCEPT !.used_actor = Some(actor)], "code_exchange",
       [NoReq EXCEPT !.kind = "code_exchange",
                     !.grant_type = "authorization_code",
                     !.code = t.code, !.client_id = orchestrator_client_id,
                     !.client_secret = orchestrator_client_secret,
                     !.code_verifier = sessions[t.state].pkce.verifier])

\* handle_callback lines 115-117: the code exchange is sent with the session's
\* verifier and the broker's actor token.
SendCodeExchange(t, actor) ==
  Send([t EXCEPT !.used_actor = Some(actor)], "code_exchange",
       [NoReq EXCEPT !.kind = "code_exchange",
                     !.grant_type = "authorization_code",
                     !.code = t.code, !.client_id = orchestrator_client_id,
                     !.client_secret = orchestrator_client_secret,
                     !.code_verifier = sessions[t.state].pkce.verifier,
                     !.actor_token = actor.token])

\* TokenBroker.initialize, called on its own: get_actor_token serves the cache or
\* starts the three-step flow for the orchestrator's identity.
initialize(p) ==
  /\ Ready(p)
  /\ calls < MaxCalls
  /\ calls' = calls + 1
  /\ IF CacheValid(asgActor)
     THEN /\ brokerActor' = asgActor
          /\ task' = [task EXCEPT ![p] = Finished(NewCall("initialize"))]
     ELSE /\ task' = [task EXCEPT ![p] =
                        BeginFlow(NewCall("initialize"), orchestrator_client_id,
                                  orchestrator_client_secret, orchestrator_agent_id)]
          /\ UNCHANGED brokerActor
  /\ UNCHANGED <<appVars, now, exchangerSet, asgActor, sessions, audit_log, issuedActor, failedCallbacks>>

\* initialize resumes after the flow: both slots are assigned, or the error is re-raised.
InitializeReturn(p) ==
  /\ task[p].pc = "flow_exit"
  /\ task[p].op = "initialize"
  /\ asgActor' = SlotAfterFlow(asgActor, task[p])
  /\ brokerActor' = SlotAfterFlow(brokerActor, task[p])
  /\ task' = [task EXCEPT ![p] =
                IF task[p].err = "" THEN Finished(task[p])
                ELSE Raise(task[p], task[p].err)]
  /\ UNCHANGED <<appVars, now, exchangerSet, sessions, audit_log, calls, issuedActor, failedCallbacks>>

\* handle_callback lines 95-97: the session is looked up by state.
SessionFound(state) == state \in DOMAIN sessions

\* handle_callback up to its first await.
CallbackBegin(t) ==
  IF ~SessionFound(t.state) THEN Raise(t, "Session not found")
  ELSE IF brokerActor # None THEN SendCodeExchange(t, brokerActor[1])
  ELSE IF CacheValid(asgActor) THEN SendCodeExchange(t, asgActor[1])
  ELSE BeginFlow(t, orchestrator_client_id, orchestrator_client_secret,
                 orchestrator_agent_id)

handle_callback(p, code, state) ==
  /\ Ready(p)
  /\ calls < MaxCalls
  /\ calls' = calls + 1
  /\ task' = [task EXCEPT ![p] =
                CallbackBegin([NewCall("handle_callback") EXCEPT
                                 !.code = code, !.state = state])]
  /\ brokerActor' = IF SessionFound(state) /\ brokerActor = None
                       /\ CacheValid(asgActor)
                    THEN asgActor ELSE brokerActor
  /\ UNCHANGED <<appVars, now, exchangerSet, asgActor, sessions, audit_log, issuedActor, failedCallbacks>>

\* History of handle_callback: the session of a callback that ends with the error
\* of the actor-token flow or of the code exchange is recorded.
FailedAfter(t) ==
  IF t.err # "" THEN failedCallbacks \cup {t.state} ELSE failedCallbacks

\* handle_callback resumes after initialize(): the error propagates, or the code
\* exchange is sent with the token now in the broker's slot.
CallbackAfterFlow(p) ==
  /\ task[p].pc = "flow_exit"
  /\ task[p].op = "handle_callback"
  /\ asgActor' = SlotAfterFlow(asgActor, task[p])
  /\ brokerActor' = SlotAfterFlow(brokerActor, task[p])
  /\ task' = [task EXCEPT ![p] =
                IF task[p].err # "" THEN Raise(task[p], task[p].err)
                ELSE SendCodeExchange([task[p] EXCEPT !.actor = None],
                                      task[p].actor[1])]
  /\ failedCallbacks' = FailedAfter(task[p])
  /\ UNCHANGED <<appVars, now, exchangerSet, sessions, audit_log, calls, issuedActor>>

\* TokenResponse(**result) with its defaults and __post_init__.
TokenResponse(t, resp) ==
  [access_token |-> Tok("delegated", t.call),
   scope |-> IF resp.scope = "absent" THEN ""
             ELSE IF resp.scope = "null" THEN NoneStr ELSE resp.scope,
   expires_at |-> now + ExpiresIn(resp, TokenResponseExpiresIn)]

\* exchange_code_for_delegated_token after client.post: raise_for_status, then
\* the TokenResponse is built.
AfterCodeExchange(t, resp) ==
  IF resp.status # 200
  THEN [Answered(t, "code_exit") EXCEPT !.err = "HTTPStatusError"]
  ELSE IF ~resp.access_token
  THEN [Answered(t, "code_exit") EXCEPT !.err = "TypeError"]
  ELSE [Answered(t, "code_exit") EXCEPT !.resp = Some(TokenResponse(t, resp))]

CodeExchangeResponse(p) ==
  /\ task[p].pc = "code_exchange"
  /\ \E resp \in TokenResponses :
       task' = [task EXCEPT ![p] = AfterCodeExchange(task[p], resp)]
  /\ UNCHANGED <<appVars, now, exchangerSet, asgActor, brokerActor, sessions, audit_log,
                 calls, issuedActor, failedCallbacks>>

\* Mutant of SessionsAfterCallback: a failed exchange resets the session's token.
SessionsResetOnFailure(t) ==
  IF t.err # ""
  THEN [sessions EXCEPT ![t.state].delegated_token = None,
                        ![t.state].token_expires_at = None]
  ELSE [sessions EXCEPT
          ![t.state].delegated_token = Some(t.resp[1].access_token),
          ![t.state].token_expires_at = Some(t.resp[1].expires_at)]

\* Mutant of SessionsAfterCallback: the session is made anew for the token.
SessionsRebuiltOnCallback(t) ==
  IF t.err # "" THEN sessions
  ELSE [sessions EXCEPT
          ![t.state] = [UserSession(t.state) EXCEPT
                          !.pkce = generate_pkce(<<"callback", t.call>>),
                          !.delegated_token = Some(t.resp[1].access_token),
                          !.token_expires_at = Some(t.resp[1].expires_at)]]

\* Mutant of SessionsAfterCallback: an expiry that is already set is kept.
SessionsExpiryKeptWhenSet(t) ==
  IF t.err # "" THEN sessions
  ELSE [sessions EXCEPT
          ![t.state].delegated_token = Some(t.resp[1].access_token),
          ![t.state].token_expires_at =
             IF sessions[t.state].token_expires_at = None
             THEN Some(t.resp[1].expires_at)
             ELSE sessions[t.state].token_expires_at]

\* handle_callback lines 124-125: the session after the exchange has ended.
SessionsAfterCallback(t) ==
  IF t.err # "" THEN sessions
  ELSE [sessions EXCEPT
          ![t.state].delegated_token = Some(t.resp[1].access_token),
          ![t.state].token_expires_at = Some(t.resp[1].expires_at)]

\* handle_callback lines 127-132: token_response.scope.split() raises on None.
AuditAfterCallback(t) ==
  IF t.err # "" \/ t.resp[1].scope = NoneStr THEN audit_log
  ELSE _log_audit("delegated_token_obtained", "user", "orchestrator",
                  Split(t.resp[1].scope), TRUE, NoneStr)

\* handle_callback resumes after the code exchange; it returns the session object.
CallbackFinish(p) ==
  /\ task[p].pc = "code_exit"
  /\ sessions' = SessionsAfterCallback(task[p])
  /\ audit_log' = AuditAfterCallback(task[p])
  /\ task' = [task EXCEPT ![p] =
                IF task[p].err # "" THEN Raise(task[p], task[p].err)
                ELSE IF task[p].resp[1].scope = NoneStr
                THEN Raise(task[p], "AttributeError")
                ELSE Return(task[p], task[p].state)]
  /\ failedCallbacks' = FailedAfter(task[p])
  /\ UNCHANGED <<appVars, now, exchangerSet, asgActor, brokerActor, calls, issuedActor>>

\* Mutant of AgentLookup: an unknown key is used as the agent's identity.
AgentLookupDefaulting(agent_key) ==
  IF agent_key \notin DOMAIN agents_config THEN Returned(agent_key)
  ELSE IF ~Truthy(agents_config[agent_key].agent_id) THEN Raised("Missing agent_id")
  ELSE Returned(agents_config[agent_key].agent_id)

\* exchange_token_for_agent lines 171-179: the agent's identity is looked up.
AgentLookup(agent_key) ==
  IF agent_key \notin DOMAIN agents_config THEN Raised("Unknown agent")
  ELSE IF ~Truthy(agents_config[agent_key].agent_id) THEN Raised("Missing agent_id")
  ELSE Returned(agents_config[agent_key].agent_id)

\* exchange_token_for_agent up to its first await: the three-step flow is started
\* for the agent's identity on every call.
ExchangeBegin(t) ==
  LET a == AgentLookup(t.agent_key)
  IN IF a.raised THEN Raise(t, a.err)
     ELSE BeginFlow(t, orchestrator_client_id, orchestrator_client_secret, a.value)

exchange_token_for_agent(p, in) ==
  /\ Ready(p)
  /\ calls < MaxCalls
  /\ calls' = calls + 1
  /\ task' = [task EXCEPT ![p] =
                ExchangeBegin([NewCall("exchange_token_for_agent") EXCEPT
                                 !.source_token = in.source_token,
                                 !.agent_key = in.agent_key,
                                 !.target_audience = in.target_audience,
                                 !.target_scopes = in.target_scopes])]
  /\ UNCHANGED <<appVars, now, exchangerSet, asgActor, brokerActor, sessions, audit_log,
                 issuedActor, failedCallbacks>>

\* The except branch, lines 232-241.
LogExchangeFailed(t, e) ==
  _log_audit("token_exchange_failed", "unknown", t.target_audience,
             t.target_scopes, FALSE, e)

\* Lines 203-204: the token-exchanger credentials are required.
ExchangerMissing ==
  ~Truthy(token_exchanger_client_id) \/ ~Truthy(token_exchanger_client_secret)

AccessTokenType == "urn:ietf:params:oauth:token-type:access_token"

\* Mutant of perform_token_exchange: actor_token_type is always in the form data.
PerformTokenExchangeAlwaysTyped(t, subject_token, client_id, client_secret, actor_token, target_audience, target_scopes) ==
  Send(t, "token_exchange",
       [NoReq EXCEPT !.kind = "token_exchange",
                     !.grant_type = "urn:ietf:params:oauth:grant-type:token-exchange",
                     !.subject_token = subject_token,
                     !.subject_token_type = AccessTokenType,
                     !.client_id = client_id,
                     !.client_secret = client_secret,
                     !.actor_token = actor_token,
                     !.actor_token_type = AccessTokenType,
                     !.audience = IF Truthy(target_audience) THEN target_audience
                                  ELSE NoneStr,
                     !.scope = IF target_scopes # <<>> THEN Join(target_scopes)
                               ELSE NoneStr])

\* AsgardeoClient.perform_token_exchange up to client.post: the form data, with
\* actor_token, audience and scope present only when the argument is truthy.
perform_token_exchange(t, subject_token, client_id, client_secret, actor_token, target_audience, target_scopes) ==
  Send(t, "token_exchange",
       [NoReq EXCEPT !.kind = "token_exchange",
                     !.grant_type = "urn:ietf:params:oauth:grant-type:token-exchange",
                     !.subject_token = subject_token,
                     !.subject_token_type = AccessTokenType,
                     !.client_id = client_id,
                     !.client_secret = client_secret,
                     !.actor_token = actor_token,
                     !.actor_token_type = IF actor_token # NoTok THEN AccessTokenType
                                          ELSE NoneStr,
                     !.audience = IF Truthy(target_audience) THEN target_audience
                                  ELSE NoneStr,
                     !.scope = IF target_scopes # <<>> THEN Join(target_scopes)
                               ELSE NoneStr])

\* Mutant of SendTokenExchange: the orchestrator's client credentials are used.
SendTokenExchangeAsOrchestrator(t) ==
  perform_token_exchange([t EXCEPT !.actor = None], t.source_token,
                         orchestrator_client_id, orchestrator_client_secret,
                         t.actor[1].token, t.target_audience, t.target_scopes)

\* exchange_token_for_agent lines 208-215.
SendTokenExchange(t) ==
  perform_token_exchange([t EXCEPT !.actor = None], t.source_token,
                         token_exchanger_client_id, token_exchanger_client_secret,
                         t.actor[1].token, t.target_audience, t.target_scopes)

\* exchange_token_for_agent resumes after the agent's flow.
ExchangeAfterFlow(p) ==
  /\ task[p].pc = "flow_exit"
  /\ task[p].op = "exchange_token_for_agent"
  /\ IF task[p].err # ""
     THEN /\ audit_log' = LogExchangeFailed(task[p], task[p].err)
          /\ task' = [task EXCEPT ![p] = Raise(task[p], task[p].err)]
     ELSE IF ExchangerMissing
     THEN /\ audit_log' = LogExchangeFailed(task[p], "TOKEN_EXCHANGER required")
          /\ task' = [task EXCEPT ![p] = Raise(task[p], "TOKEN_EXCHANGER required")]
     ELSE /\ audit_log' = audit_log
          /\ task' = [task EXCEPT ![p] = SendTokenExchange(task[p])]
  /\ UNCHANGED <<appVars, now, exchangerSet, asgActor, brokerActor, sessions, calls,
                 issuedActor, failedCallbacks>>

\* perform_token_exchange after client.post: raise_for_status, result["access_token"].
AfterTokenExchange(t, resp) ==
  IF resp.status # 200
  THEN [Answered(t, "token_exit") EXCEPT !.err = "HTTPStatusError"]
  ELSE IF ~resp.access_token
  THEN [Answered(t, "token_exit") EXCEPT !.err = "KeyError"]
  ELSE [Answered(t, "token_exit") EXCEPT !.resp = Some(Tok("exchanged", t.call))]

TokenExchangeResponse(p) ==
  /\ task[p].pc = "token_exchange"
  /\ \E resp \in TokenResponses :
       task' = [task EXCEPT ![p] = AfterTokenExchange(task[p], resp)]
  /\ UNCHANGED <<appVars, now, exchangerSet, asgActor, brokerActor, sessions, audit_log,
                 calls, issuedActor, failedCallbacks>>

\* Mutant of AuditAfterExchange: the entry names the orchestrator, not the target.
AuditAfterExchangeForOrchestrator(t) ==
  IF t.err # "" THEN LogExchangeFailed(t, t.err)
  ELSE _log_audit("token_exchange", "unknown", "orchestrator", <<>>, TRUE, NoneStr)

\* Lines 223-241: the audit entry of the call, then its result.
AuditAfterExchange(t) ==
  IF t.err # "" THEN LogExchangeFailed(t, t.err)
  ELSE _log_audit("token_exchange", "unknown", t.target_audience,
                  t.target_scopes, TRUE, NoneStr)

ExchangeFinish(p) ==
  /\ task[p].pc = "token_exit"
  /\ audit_log' = AuditAfterExchange(task[p])
  /\ task' = [task EXCEPT ![p] =
                IF task[p].err # "" THEN Raise(task[p], task[p].err)
                ELSE Return(task[p], task[p].resp[1])]
  /\ UNCHANGED <<appVars, now, exchangerSet, asgActor, brokerActor, sessions, calls,
                 issuedActor, failedCallbacks>>

\* ------------------------------------------------------ the specifications
\* The three steps of the flow, for whichever operation started it.
FlowStep(p) ==
  \/ InitiateResponse(p)
  \/ AuthenticateResponse(p)
  \/ ActorExchangeResponse(p)

Next ==
  \/ Tick
  \/ create_session
  \/ \E p \in Procs, id \in 1..MaxSessions, scopes \in ScopeInputs :
       get_authorization_url(p, id, scopes)
  \/ \E p \in Procs : initialize(p)
  \/ \E p \in Procs, code \in Codes, state \in 1..MaxSessions :
       handle_callback(p, code, state)
  \/ \E p \in Procs, in \in ExchangeInputs : exchange_token_for_agent(p, in)
  \/ \E p \in Procs :
       \/ FlowStep(p)
       \/ InitializeReturn(p)
       \/ CallbackAfterFlow(p)
       \/ CodeExchangeResponse(p)
       \/ CallbackFinish(p)
       \/ ExchangeAfterFlow(p)
       \/ TokenExchangeResponse(p)
       \/ ExchangeFinish(p)

\* Every operation of the broker, interleaved.
Spec == Init /\ [][Next]_vars

\* Delegation alone: sessions, the orchestrator's actor token, callbacks.  None of
\* these operations reads the exchanger credentials.
NextDelegation ==
  \/ Tick
  \/ create_session
  \/ \E p \in Procs, id \in 1..MaxSessions, scopes \in ScopeInputs :
       get_authorization_url(p, id, scopes)
  \/ \E p \in Procs : initialize(p)
  \/ \E p \in Procs, code \in Codes, state \in 1..MaxSessions :
       handle_callback(p, code, state)
  \/ \E p \in Procs :
       \/ FlowStep(p)
       \/ InitializeReturn(p)
       \/ CallbackAfterFlow(p)
       \/ CodeExchangeResponse(p)
       \/ CallbackFinish(p)

InitDelegation == Init /\ exchangerSet = TRUE

SpecDelegation == InitDelegation /\ [][NextDelegation]_vars

\* Token exchange alone: exchange_token_for_agent reads no session and no
\* actor-token slot, and shares only the audit log with the other operations.
NextExchange ==
  \/ Tick
  \/ \E p \in Procs, in \in ExchangeInputs : exchange_token_for_agent(p, in)
  \/ \E p \in Procs :
       \/ FlowStep(p)
       \/ ExchangeAfterFlow(p)
       \/ TokenExchangeResponse(p)
       \/ ExchangeFinish(p)

SpecExchange == Init /\ [][NextExchange]_vars

\* ------------------------------------------------------------ application
\* main.py lifespan, lines 46-50: the broker is initialized at startup.
lifespan(p) == calls = 0 /\ initialize(p)

\* lifespan has reached its yield (line 58): the startup call is over, whether
\* initialize() returned or its exception was caught and logged.
LifespanYielded ==
  /\ calls >= 1
  /\ \A p \in Procs : task[p].call = 1 => task[p].pc = "done"

\* GET /auth/login: a session is made and its authorization URL is returned.
LoginScopes == <<"hr:read", "hr:write", "it:read", "it:write", "approval:read",
                 "approval:write", "booking:read", "booking:write">>
start_login(p) ==
  /\ LifespanYielded
  /\ Ready(p)
  /\ Len(sessions) < MaxSessions
  /\ LET session == UserSession(Len(sessions) + 1)
     IN /\ sessions' = Append(sessions, session)
        /\ task' = [task EXCEPT ![p] =
                      Return([Idle EXCEPT !.op = "get_authorization_url",
                                          !.state = session.session_id],
                             build_user_authorize_url(LoginScopes,
                                                      session.session_id,
                                                      session.pkce))]
  /\ UNCHANGED <<appVars, now, exchangerSet, asgActor, brokerActor, audit_log, calls,
                 issuedActor, failedCallbacks>>

\* GET /callback: handle_callback with the query's code and state.
oauth_callback(p, code, state) == LifespanYielded /\ handle_callback(p, code, state)

NextLifespan ==
  \/ Tick
  \/ \E p \in Procs : lifespan(p)
  \/ \E p \in Procs : start_login(p)
  \/ \E p \in Procs, code \in Codes, state \in 1..MaxSessions :
       oauth_callback(p, code, state)
  \/ \E p \in Procs :
       \/ FlowStep(p)
       \/ InitializeReturn(p)
       \/ CallbackAfterFlow(p)
       \/ CodeExchangeResponse(p)
       \/ CallbackFinish(p)

\* The application: startup, then the login and callback endpoints.
SpecLifespan == InitDelegation /\ [][NextLifespan]_vars

\* ------------------------------------------------- perform_token_exchange
\* Arguments of AsgardeoClient.perform_token_exchange called on its own: the
\* actor token, the audience and the scopes are optional.
TokenExchangeInputs ==
  [subject_token : {Tok("source", 1), Tok("source", 2)},
   client_id : {"tx-client", orchestrator_client_id},
   actor : {None, Some([token |-> Tok("actor", 1), actor_id |-> "hr-id",
                        expires_at |-> MaxTime])},
   target_audience : {NoneStr, "hr-api"},
   target_scopes : {<<>>, <<"hr:write">>, <<"it:read", "it:write">>}]

\* perform_token_exchange is called: the form data is built and posted.
PerformTokenExchange(p, in) ==
  /\ Ready(p)
  /\ calls < MaxCalls
  /\ calls' = calls + 1
  /\ task' = [task EXCEPT ![p] =
                perform_token_exchange(
                  [NewCall("perform_token_exchange") EXCEPT
                     !.source_token = in.subject_token,
                     !.client_id = in.client_id,
                     !.client_secret = "secret",
                     !.actor = in.actor,
                     !.target_audience = in.target_audience,
                     !.target_scopes = in.target_scopes],
                  in.subject_token, in.client_id, "secret",
                  IF in.actor = None THEN NoTok ELSE in.actor[1].token,
                  in.target_audience, in.target_scopes)]
  /\ UNCHANGED <<appVars, now, exchangerSet, asgActor, brokerActor, sessions, audit_log,
                 issuedActor, failedCallbacks>>

\* perform_token_exchange leaves its client block: the token or the error.
PerformTokenExchangeReturn(p) ==
  /\ task[p].pc = "token_exit"
  /\ task[p].op = "perform_token_exchange"
  /\ task' = [task EXCEPT ![p] =
                IF task[p].err # "" THEN Raise(task[p], task[p].err)
                ELSE Return(task[p], task[p].resp[1])]
  /\ UNCHANGED <<appVars, now, exchangerSet, asgActor, brokerActor, sessions, audit_log,
                 calls, issuedActor, failedCallbacks>>

NextTokenRequest ==
  \/ \E p \in Procs, in \in TokenExchangeInputs : PerformTokenExchange(p, in)
  \/ \E p \in Procs : TokenExchangeResponse(p)
  \/ \E p \in Procs : PerformTokenExchangeReturn(p)

\* perform_token_exchange alone, over its optional arguments.
SpecTokenRequest == InitDelegation /\ [][NextTokenRequest]_vars

\* ------------------------------------------------------------- onboarding
\* TokenBroker.get_demo_token: the token of the newest session that has one.
get_demo_token ==
  LET withToken == {id \in DOMAIN sessions : sessions[id].delegated_token # None}
      newest == CHOOSE id \in withToken : \A other \in withToken : other <= id
  IN IF withToken = {} THEN Raised("No user session found")
     ELSE Returned(sessions[newest].delegated_token[1])

\* The answer of POST /api/onboard that ends the request before any workflow.
Answer(session_id, status) ==
  [onboarding EXCEPT !.requests = @ + 1, !.session_id = session_id,
                     !.response = status]

\* graph.ainvoke(initial_state): the run is at the entry point, intake awaits
\* the language model.
Invoke(session_id, user_sub, token) ==
  [NoRun EXCEPT !.requests = onboarding.requests + 1, !.session_id = session_id,
                !.state = create_initial_state(user_sub, token),
                !.node = "intake", !.pc = "llm"]

\* start_onboarding lines 242-251: the token of the session, or the demo token.
TokenFor(session_id) ==
  IF session_id = None THEN get_demo_token
  ELSE IF get_delegated_token(session_id[1]) = None THEN Raised("401")
  ELSE Returned(get_delegated_token(session_id[1])[1])

\* POST /api/onboard up to the workflow's first await.  An HTTPException(401)
\* answers 401; the ValueError of get_demo_token is outside the try and answers 500.
start_onboarding(session_id) ==
  /\ onboarding.node \in {"none", "end"}
  /\ onboarding.requests < MaxRequests
  /\ LET token == TokenFor(session_id)
     IN onboarding' =
          IF token.raised
          THEN Answer(session_id, IF token.err = "401" THEN 401 ELSE 500)
          ELSE Invoke(session_id,
                      IF session_id = None THEN "demo-user@nebulasoft.com"
                      ELSE Or(get_session(session_id[1])[1].user_sub, "unknown"),
                      token.value)
  /\ UNCHANGED <<now, exchangerSet, asgActor, brokerActor, sessions, audit_log,
                 calls, task, issuedActor, failedCallbacks, api_calls, executorVars, orch>>

\* The session ids a request may carry: none, a session's, or an unknown one.
OnboardingSessionIds == {None} \cup {Some(id) : id \in 1..(MaxSessions + 1)}

\* Sessions, callbacks and the onboarding endpoint.
NextOnboard ==
  \/ Tick
  \/ create_session
  \/ \E p \in Procs, code \in Codes, state \in 1..MaxSessions :
       handle_callback(p, code, state)
  \/ \E p \in Procs :
       \/ FlowStep(p)
       \/ CallbackAfterFlow(p)
       \/ CodeExchangeResponse(p)
       \/ CallbackFinish(p)
  \/ \E session_id \in OnboardingSessionIds : start_onboarding(session_id)

SpecOnboard == InitDelegation /\ [][NextOnboard]_vars

\* --------------------------------------------------------------- workflow
\* x in list
In(x, seq) == \E i \in DOMAIN seq : seq[i] = x
\* [a.lower() for a in list], on the strings a parsed request carries
Lower(s) == CASE s = "VPN" -> "vpn" [] s = "AWS" -> "aws" [] OTHER -> s
LowerAll(seq) == [i \in DOMAIN seq |-> Lower(seq[i])]

\* The ParsedRequest made of the language model's JSON; the names, addresses and
\* dates it carries are passed on to the APIs unread.
ParsedRequests ==
  {[access_requirements |-> <<"VPN", "github">>, github_repos |-> <<>>,
    hardware_needs |-> <<>>],
   [access_requirements |-> <<"vpn", "aws">>, github_repos |-> <<>>,
    hardware_needs |-> <<>>],
   [access_requirements |-> <<"github">>, github_repos |-> <<"core-platform">>,
    hardware_needs |-> <<"laptop">>]}

\* policy_engine lines 60-62: a core repository, or "core" in the name.
CoreRepo(r) == r \in {"identity-server-core", "core-platform", "auth-service"}

\* policy_engine: the approvals the request requires, by policy.
policy_engine(s) ==
  IF s.parsed_request = None
  THEN [s EXCEPT !.status = "failed", !.error = "No parsed request"]
  ELSE LET access == LowerAll(s.parsed_request[1].access_requirements)
           repos == LowerAll(s.parsed_request[1].github_repos)
           hardware == LowerAll(s.parsed_request[1].hardware_needs)
           required ==
             (IF \E i \in DOMAIN repos : CoreRepo(repos[i])
              THEN <<"technical_lead">> ELSE <<>>)
             \o (IF In("vpn", access) /\ In("aws", access)
                 THEN <<"security_team">> ELSE <<>>)
             \o (IF In("laptop", hardware) THEN <<"finance">> ELSE <<>>)
       IN [s EXCEPT !.risk_assessment = Some([required_approvals |-> required]),
                    !.current_phase = "hr"]

\* compile_report
compile_report(s) ==
  [s EXCEPT !.status = "completed", !.current_phase = "complete",
            !.final_report = TRUE]

should_continue_after_hr(s) ==
  IF s.status = "failed" THEN "end"
  ELSE IF s.risk_assessment # None /\ s.risk_assessment[1].required_approvals # <<>>
  THEN "approvals"
  ELSE "it"

should_continue_after_approvals(s) ==
  IF s.status = "failed" THEN "end"
  ELSE IF s.blocking_approvals # <<>> THEN "check_approvals"
  ELSE "it"

should_continue_after_check(s) ==
  IF s.blocking_approvals # <<>> THEN "it" ELSE "it"

should_continue_after_it(s) == IF s.status = "failed" THEN "end" ELSE "booking"

should_continue_after_booking(s) == IF s.status = "failed" THEN "end" ELSE "compile"

\* create_onboarding_graph: the node that follows node w in state s.
create_onboarding_graph(w, s) ==
  CASE w = "intake" -> "policy"
    [] w = "policy" -> "director"
    [] w = "director" -> "hr"
    [] w = "hr" -> should_continue_after_hr(s)
    [] w = "approvals" -> should_continue_after_approvals(s)
    [] w = "check_approvals" -> should_continue_after_check(s)
    [] w = "it" -> should_continue_after_it(s)
    [] w = "booking" -> should_continue_after_booking(s)
    [] w = "compile" -> "end"

\* The nodes that are worker agents: hr_agent, approval_agent,
\* check_approvals_agent, it_agent, booking_agent.
Workers == {"hr", "approvals", "check_approvals", "it", "booking"}

\* The agent_key and target_scopes each worker passes to exchange_token_for_agent.
WorkerKey(w) ==
  CASE w = "hr" -> "hr_agent"
    [] w = "it" -> "it_agent"
    [] w \in {"approvals", "check_approvals"} -> "approval_agent"
    [] w = "booking" -> "booking_agent"

WorkerScopes(w) ==
  CASE w = "hr" -> <<"hr:write">>
    [] w = "it" -> <<"it:write">>
    [] w = "approvals" -> <<"approval:write">>
    [] w = "check_approvals" -> <<"approval:read", "approval:write">>
    [] w = "booking" -> <<"booking:write">>

\* Mutant of Skips: it_agent does not look at blocking_approvals.
SkipsIgnoringApprovals(w, s) ==
  CASE w = "hr" -> s.parsed_request = None
    [] w = "it" -> s.parsed_request = None \/ ~Truthy(s.employee_id)
    [] w = "approvals" -> s.risk_assessment = None \/ s.parsed_request = None
    [] w = "check_approvals" -> s.approval_requests = <<>>
    [] w = "booking" -> s.parsed_request = None \/ ~Truthy(s.employee_id)

\* The early return of each worker: it hands the state back untouched.
Skips(w, s) ==
  CASE w = "hr" -> s.parsed_request = None
    [] w = "it" -> \/ s.parsed_request = None
                   \/ ~Truthy(s.employee_id)
                   \/ s.blocking_approvals # <<>>
    [] w = "approvals" -> s.risk_assessment = None \/ s.parsed_request = None
    [] w = "check_approvals" -> s.approval_requests = <<>>
    [] w = "booking" -> s.parsed_request = None \/ ~Truthy(s.employee_id)

\* A call of a downstream API.
ApiCall(api, arg) == [api |-> api, arg |-> arg]

\* The API calls a worker makes after the exchange, in order.
Calls(w, s) ==
  CASE w = "hr" -> <<ApiCall("create_employee", "")>>
    [] w = "approvals" ->
         [i \in DOMAIN s.risk_assessment[1].required_approvals |->
            ApiCall("request_approval", s.risk_assessment[1].required_approvals[i])]
    [] w = "check_approvals" -> <<ApiCall("check_approval_status", "")>>
    [] w = "it" ->
         LET access == LowerAll(s.parsed_request[1].access_requirements)
         IN (IF In("vpn", access) THEN <<ApiCall("provision_vpn", "vpn")>> ELSE <<>>)
            \o (IF In("github", access)
                THEN <<ApiCall("provision_github", "github")>> ELSE <<>>)
            \o (IF In("aws", access) THEN <<ApiCall("provision_aws", "aws")>> ELSE <<>>)
    [] w = "booking" -> <<ApiCall("create_task", "orientation")>>

\* check_approvals_agent lines 200-202: approve_request for every pending request.
ApproveCalls(s) ==
  [i \in DOMAIN s.approval_requests |->
     ApiCall("approve_request", s.approval_requests[i])]

\* What a worker keeps of an API's answer.
Result(call) ==
  CASE call.api = "create_employee" -> "EMP-1"
    [] call.api = "request_approval" -> "APR-" \o call.arg
    [] call.api = "check_approval_status" -> "statuses"
    [] call.api = "approve_request" -> "approved"
    [] call.api \in {"provision_vpn", "provision_github", "provision_aws"} ->
         "PRV-" \o call.arg
    [] call.api = "create_task" -> "TASK-1"

\* The state a worker returns when all its calls have succeeded.
Done(w, s, acc, pending) ==
  CASE w = "hr" ->
         [s EXCEPT !.employee_id = acc[1],
                   !.completed_actions = Append(@, "create_employee")]
    [] w = "approvals" ->
         [s EXCEPT !.approval_requests = acc, !.blocking_approvals = acc,
                   !.completed_actions = Append(@, "request_approvals")]
    [] w = "check_approvals" ->
         [s EXCEPT !.approvals_received = s.approval_requests,
                   !.blocking_approvals = <<>>,
                   !.status = IF pending THEN "waiting_approval" ELSE @]
    [] w = "it" ->
         [s EXCEPT !.provisioned_services = @ \o acc,
                   !.completed_actions = Append(@, "provision_it")]
    [] w = "booking" ->
         [s EXCEPT !.scheduled_tasks = acc,
                   !.completed_actions = Append(@, "schedule_tasks")]

\* The except branch of each worker.
Failed(w, s, e) ==
  [s EXCEPT !.status = "failed",
            !.error = (CASE w = "hr" -> "HR agent failed: "
                         [] w = "it" -> "IT agent failed: "
                         [] w = "approvals" -> "Approval failed: "
                         [] w = "check_approvals" -> "Check approvals failed: "
                         [] w = "booking" -> "Booking failed: ") \o e]

\* Mutant of EndNode: the graph goes on to the next worker whatever the status.
EndNodeIgnoringStatus(run, s) ==
  LET w == run.node
      next == CASE w = "hr" -> "it" [] w = "it" -> "booking"
                [] w = "booking" -> "compile"
                [] OTHER -> create_onboarding_graph(w, s)
  IN [run EXCEPT !.state = s, !.node = next,
                 !.pc = IF next = "end" THEN "" ELSE "start",
                 !.token = NoTok, !.todo = <<>>, !.acc = <<>>, !.caller = 0,
                 !.response = IF next = "end" THEN 200 ELSE @]

\* A node has returned state s: the graph moves to the node its edge names; at
\* END start_onboarding answers with the final state.
EndNode(run, s) ==
  LET next == create_onboarding_graph(run.node, s)
  IN [run EXCEPT !.state = s, !.node = next,
                 !.pc = IF next = "end" THEN "" ELSE "start",
                 !.token = NoTok, !.todo = <<>>, !.acc = <<>>, !.caller = 0,
                 !.response = IF next = "end" THEN 200 ELSE @]

\* What the language model answers intake_agent.
IntakeOutcomes == {"parsed", "invalid_json", "raise"}

\* intake_agent after llm.ainvoke: the JSON is parsed, or the run is marked
\* failed; an exception of the model call ends the run with a 500.
intake_agent(outcome, parsed) ==
  /\ onboarding.node = "intake"
  /\ onboarding.pc = "llm"
  /\ LET run == [onboarding EXCEPT !.executed = Append(@, "intake")]
         s == onboarding.state
     IN onboarding' =
          CASE outcome = "parsed" ->
                 EndNode(run, [s EXCEPT !.parsed_request = Some(parsed),
                                        !.current_phase = "risk"])
            [] outcome = "invalid_json" ->
                 EndNode(run, [s EXCEPT !.status = "failed",
                                        !.error = "Failed to parse request"])
            [] outcome = "raise" ->
                 [run EXCEPT !.node = "end", !.pc = "", !.response = 500]
  /\ UNCHANGED <<now, exchangerSet, asgActor, brokerActor, sessions, audit_log,
                 calls, task, issuedActor, failedCallbacks, api_calls, executorVars, orch>>

\* The nodes without an await: policy_engine, director_agent, compile_report.
PlainNode ==
  /\ onboarding.node \in {"policy", "director", "compile"}
  /\ onboarding.pc = "start"
  /\ onboarding' =
       EndNode([onboarding EXCEPT !.executed = Append(@, onboarding.node)],
               CASE onboarding.node = "policy" -> policy_engine(onboarding.state)
                 [] onboarding.node = "director" -> onboarding.state
                 [] onboarding.node = "compile" -> compile_report(onboarding.state))
  /\ UNCHANGED <<now, exchangerSet, asgActor, brokerActor, sessions, audit_log,
                 calls, task, issuedActor, failedCallbacks, api_calls, executorVars, orch>>

\* Mutant of Sent: the worker sends the composite token to the API.
SentComposite(w, token, call) ==
  Append(api_calls, [node |-> w, api |-> call.api,
                     token |-> onboarding.state.composite_token])

\* client.post of a tool function: the request carries the token it was given.
Sent(w, token, call) ==
  Append(api_calls, [node |-> w, api |-> call.api, token |-> token])

\* A worker agent up to its first await: the early return, or the call of
\* exchange_token_for_agent with the composite token.
WorkerStart(p) ==
  /\ onboarding.node \in Workers
  /\ onboarding.pc = "start"
  /\ LET w == onboarding.node
         run == [onboarding EXCEPT !.executed = Append(@, w)]
     IN IF Skips(w, onboarding.state)
        THEN /\ p = 1
             /\ onboarding' = EndNode(run, onboarding.state)
             /\ UNCHANGED <<task, calls>>
        ELSE /\ Ready(p)
             /\ calls' = calls + 1
             /\ task' = [task EXCEPT ![p] =
                           ExchangeBegin([NewCall("exchange_token_for_agent") EXCEPT
                              !.source_token = onboarding.state.composite_token,
                              !.agent_key = WorkerKey(w),
                              !.target_audience = "onboarding-api",
                              !.target_scopes = WorkerScopes(w)])]
             /\ onboarding' = [run EXCEPT !.pc = "exchange", !.caller = p]
  /\ UNCHANGED <<now, exchangerSet, asgActor, brokerActor, sessions, audit_log,
                 issuedActor, failedCallbacks, api_calls, executorVars, orch>>

\* exchange_token_for_agent has ended: on an exception the worker returns the
\* failed state, otherwise it makes its first API call with the token returned.
WorkerAfterExchange ==
  /\ onboarding.node \in Workers
  /\ onboarding.pc = "exchange"
  /\ task[onboarding.caller].pc = "done"
  /\ LET w == onboarding.node
         t == task[onboarding.caller]
         plan == Calls(w, onboarding.state)
     IN IF t.err # ""
        THEN /\ onboarding' = EndNode(onboarding, Failed(w, onboarding.state, t.err))
             /\ UNCHANGED api_calls
        ELSE IF plan = <<>>
        THEN /\ onboarding' = EndNode(onboarding, Done(w, onboarding.state, <<>>, FALSE))
             /\ UNCHANGED api_calls
        ELSE /\ onboarding' = [onboarding EXCEPT !.pc = "api", !.token = t.ret[1],
                                                 !.todo = plan]
             /\ api_calls' = Sent(w, t.ret[1], plan[1])
  /\ UNCHANGED <<now, exchangerSet, asgActor, brokerActor, sessions, audit_log,
                 calls, task, issuedActor, failedCallbacks, executorVars, orch>>

\* The downstream API answers the call in flight: raise_for_status raises, or the
\* result is kept and the next call is made; after the last one the worker
\* returns.  pending: check_approval_status reports the requests as pending.
ApiResponse(ok, pending) ==
  /\ onboarding.node \in Workers
  /\ onboarding.pc = "api"
  /\ LET w == onboarding.node
         call == onboarding.todo[1]
         acc == Append(onboarding.acc, Result(call))
         rest == IF call.api = "check_approval_status"
                 THEN (IF pending THEN ApproveCalls(onboarding.state) ELSE <<>>)
                 ELSE Tail(onboarding.todo)
     IN IF ~ok
        THEN /\ onboarding' = EndNode(onboarding,
                                      Failed(w, onboarding.state, "HTTPStatusError"))
             /\ UNCHANGED api_calls
        ELSE IF rest = <<>>
        THEN /\ onboarding' = EndNode(onboarding,
                                      Done(w, onboarding.state, acc, Len(acc) > 1))
             /\ UNCHANGED api_calls
        ELSE /\ onboarding' = [onboarding EXCEPT !.todo = rest, !.acc = acc]
             /\ api_calls' = Sent(w, onboarding.token, rest[1])
  /\ UNCHANGED <<now, exchangerSet, asgActor, brokerActor, sessions, audit_log,
                 calls, task, issuedActor, failedCallbacks, executorVars, orch>>

\* A user has logged in: the state after create_session() and one successful
\* handle_callback for that session.
InitWorkflow ==
  /\ now = 0
  /\ exchangerSet \in BOOLEAN
  /\ asgActor = Some([token |-> Tok("actor", 1), actor_id |-> orchestrator_agent_id,
                      expires_at |-> ShortLife])
  /\ brokerActor = asgActor
  /\ sessions = <<[UserSession(1) EXCEPT
                     !.delegated_token = Some(Tok("delegated", 1)),
                     !.token_expires_at = Some(TokenResponseExpiresIn)]>>
  /\ audit_log = <<AuditEntry("delegated_token_obtained", "user", "orchestrator",
                              <<"openid", "hr:read">>, TRUE, NoneStr)>>
  /\ calls = 1
  /\ task = [p \in Procs |->
               IF p = 1 THEN [Idle EXCEPT !.op = "handle_callback", !.call = 1,
                                          !.pc = "done", !.state = 1,
                                          !.ret = Some(1)]
               ELSE Idle]
  /\ issuedActor = [a \in SubAgentIds |-> None]
  /\ failedCallbacks = {}
  /\ onboarding = NoRun
  /\ api_calls = <<>>
  /\ objects = <<>>
  /\ _tasks = [id \in TaskIds |-> 0]
  /\ rpc = [p \in Procs |-> NoSend]
  /\ sends = 0
  /\ orch = NoOrch

\* The onboarding workflow: one request, the graph's nodes, the broker's
\* exchanges the workers await and the downstream APIs' answers.
NextWorkflow ==
  \/ Tick
  \/ \E session_id \in OnboardingSessionIds : start_onboarding(session_id)
  \/ \E outcome \in IntakeOutcomes, parsed \in ParsedRequests :
       intake_agent(outcome, parsed)
  \/ PlainNode
  \/ \E p \in Procs :
       \/ WorkerStart(p)
       \/ FlowStep(p)
       \/ ExchangeAfterFlow(p)
       \/ TokenExchangeResponse(p)
       \/ ExchangeFinish(p)
  \/ WorkerAfterExchange
  \/ \E ok \in BOOLEAN, pending \in BOOLEAN : ApiResponse(ok, pending)

SpecWorkflow == InitWorkflow /\ [][NextWorkflow]_vars

\* -------------------------------------------------------------- executor
\* handle_task_send lines 63-80: the stored task is continued, or a new one made.
TaskReceived(id, message) ==
  IF _tasks[id] # 0
  THEN [objects EXCEPT ![_tasks[id]].history = Append(@, message),
                       ![_tasks[id]].status = TaskStatus("working", Message("", ""))]
  ELSE Append(objects, Task(id, TaskStatus("submitted", Message("", "")), <<message>>))

\* handle_task_send up to "await self.execute(...)".
handle_task_send(p, id, text) ==
  /\ rpc[p].pc \in {"idle", "done"}
  /\ \A q \in Procs : rpc[q].pc \in {"idle", "done"} => p <= q
  /\ sends < MaxSends
  /\ sends' = sends + 1
  /\ objects' = TaskReceived(id, Message("user", text))
  /\ _tasks' = IF _tasks[id] # 0 THEN _tasks
               ELSE [_tasks EXCEPT ![id] = Len(objects) + 1]
  /\ rpc' = [rpc EXCEPT ![p] =
               [NoSend EXCEPT !.pc = "execute", !.id = id,
                              !.message = Message("user", text),
                              !.existing = _tasks'[id],
                              !.prior = IF _tasks[id] # 0
                                        THEN objects[_tasks[id]].history ELSE <<>>]]
  /\ UNCHANGED <<now, exchangerSet, asgActor, brokerActor, sessions, audit_log,
                 calls, task, issuedActor, failedCallbacks, onboardVars, orch>>

\* SimpleExecutor.execute lines 172-187: the task execute returns.
execute(f) ==
  Task(f.id,
       TaskStatus("completed", Message("agent", "done: " \o f.message.text)),
       <<f.message, Message("agent", "done: " \o f.message.text)>>)

\* Mutant of TaskFailed: the failed task starts a history of its own.
TaskFailedAnew(existing_task, e) ==
  [existing_task EXCEPT !.status = TaskStatus("failed", Message("agent", "Error: " \o e)),
               !.history = <<>>]

\* handle_task_send lines 119-125: existing_task with the error as its status.
TaskFailed(existing_task, e) ==
  [existing_task EXCEPT !.status = TaskStatus("failed", Message("agent", "Error: " \o e))]

\* handle_task_send after execute: the returned task is stored, or, when
\* execute raised, existing_task is marked failed and stored again.
ExecuteEnds(p, outcome) ==
  /\ rpc[p].pc = "execute"
  /\ IF outcome = "returned"
     THEN /\ objects' = Append(objects, execute(rpc[p]))
          /\ _tasks' = [_tasks EXCEPT ![rpc[p].id] = Len(objects) + 1]
          /\ rpc' = [rpc EXCEPT ![p].pc = "done", ![p].outcome = outcome,
                                ![p].ret = Len(objects) + 1]
     ELSE /\ objects' = [objects EXCEPT ![rpc[p].existing] =
                                           TaskFailed(@, "handler error")]
          /\ _tasks' = [_tasks EXCEPT ![rpc[p].id] = rpc[p].existing]
          /\ rpc' = [rpc EXCEPT ![p].pc = "done", ![p].outcome = outcome,
                                ![p].ret = rpc[p].existing]
  /\ UNCHANGED <<now, exchangerSet, asgActor, brokerActor, sessions, audit_log,
                 calls, task, issuedActor, failedCallbacks, onboardVars, sends, orch>>

\* TaskExecutor.cancel_task
cancel_task(id) ==
  /\ objects' = IF _tasks[id] # 0
                THEN [objects EXCEPT ![_tasks[id]].status =
                                        TaskStatus("canceled", Message("", ""))]
                ELSE objects
  /\ UNCHANGED <<now, exchangerSet, asgActor, brokerActor, sessions, audit_log,
                 calls, task, issuedActor, failedCallbacks, onboardVars,
                 _tasks, rpc, sends, orch>>

\* TaskExecutor.get_task
get_task(id) == IF _tasks[id] # 0 THEN Some(objects[_tasks[id]]) ELSE None

\* An agent's executor under tasks/send and tasks/cancel.
NextExecutor ==
  \/ \E p \in Procs, id \in TaskIds, text \in {"hire", "status"} :
       handle_task_send(p, id, text)
  \/ \E p \in Procs, outcome \in {"returned", "raised"} : ExecuteEnds(p, outcome)
  \/ \E id \in TaskIds : cancel_task(id)

SpecExecutor == InitDelegation /\ [][NextExecutor]_vars

\* ---------------------------------------------------------- orchestrator
\* The agent cards OrchestratorAgent.discover_agents can bring back.
AgentCard(name, url) == [name |-> name, url |-> url]
AgentCards ==
  <<AgentCard("HR Agent", "http://localhost:8001"),
    AgentCard("IT Agent", "http://localhost:8002"),
    AgentCard("Approval Agent", "http://localhost:8003")>>

\* The plans json.loads can give: arrays of at most MaxPlan tasks, each the task
\* the language model plans for an agent.
TaskPlans ==
  UNION {{[i \in 1..n |->
             [step |-> i, agent_name |-> AgentCards[cards[i]].name,
              agent_url |-> AgentCards[cards[i]].url,
              task |-> "ask " \o AgentCards[cards[i]].name]] :
            cards \in [1..n -> DOMAIN AgentCards]} : n \in 0..MaxPlan}

\* name.lower().replace(" ", "_")
AgentKey(name) ==
  CASE name = "HR Agent" -> "hr_agent"
    [] name = "IT Agent" -> "it_agent"
    [] name = "Approval Agent" -> "approval_agent"
    [] OTHER -> name
\* name.lower().replace(" ", "-")
AgentAudience(name) ==
  CASE name = "HR Agent" -> "hr-agent"
    [] name = "IT Agent" -> "it-agent"
    [] name = "Approval Agent" -> "approval-agent"
    [] OTHER -> name
\* agent_key.replace("_agent", "")
ScopePrefix(agent_key) ==
  CASE agent_key = "hr_agent" -> "hr"
    [] agent_key = "it_agent" -> "it"
    [] agent_key = "approval_agent" -> "approval"
    [] OTHER -> agent_key

\* load_yaml_config()["agents"]: hr_agent declares its scopes, it_agent declares
\* none, approval_agent is not configured.
yaml_agents ==
  [hr_agent |-> [scopes |-> <<"hr:read">>], it_agent |-> [scopes |-> <<>>]]

\* execute_task_node lines 166-179: the key of the agent a task goes to.
TaskAgentKey(available_agents, current_task) ==
  LET found == {i \in DOMAIN available_agents :
                  available_agents[i].url = current_task.agent_url}
      first == CHOOSE i \in found : \A j \in found : i <= j
  IN IF found # {} /\ AgentKey(available_agents[first].name) # ""
     THEN AgentKey(available_agents[first].name)
     ELSE AgentKey(current_task.agent_name)

\* execute_task_node lines 181-198: the list agent_scopes.
AgentScopes(agent_key) ==
  LET derived == <<ScopePrefix(agent_key) \o ":read", ScopePrefix(agent_key) \o ":write">>
  IN IF agent_key \in DOMAIN yaml_agents
     THEN IF yaml_agents[agent_key].scopes # <<>>
          THEN yaml_agents[agent_key].scopes ELSE derived
     ELSE derived

\* agent_scopes.get(agent_key, []) at line 207: agent_scopes is a list, and a list
\* has no get.
ListGet(agent_scopes, agent_key) ==
  Raised("'list' object has no attribute 'get'")

\* Mutant of NextTaskIndex: the index stays where it is.
SameTaskIndex(task_idx) == task_idx

\* execute_task_node line 254
NextTaskIndex(task_idx) == task_idx + 1

\* should_continue_execution
should_continue_execution(s) ==
  IF s.approval_status = "denied" THEN "aggregate"
  ELSE IF s.current_task_index < Len(s.task_plan) THEN "execute_task"
  ELSE "aggregate"

\* run_orchestrator_workflow up to the graph's entry point.
run_orchestrator_workflow(user_query, access_token) ==
  /\ orch.node = "none"
  /\ orch' = [orch EXCEPT !.node = "discover_agents",
                          !.state = initial_state(user_query, access_token)]
  /\ UNCHANGED <<now, exchangerSet, asgActor, brokerActor, sessions, audit_log,
                 calls, task, issuedActor, failedCallbacks, onboardVars, executorVars>>

discover_agents_node(agents) ==
  /\ orch.node = "discover_agents"
  /\ orch' = [orch EXCEPT !.node = "plan_tasks",
                          !.state.available_agents = agents,
                          !.state.messages = Append(@, "Discovered agents")]
  /\ UNCHANGED <<now, exchangerSet, asgActor, brokerActor, sessions, audit_log,
                 calls, task, issuedActor, failedCallbacks, onboardVars, executorVars>>

\* plan_tasks_node, for an answer of the language model that is the JSON of
\* task_plan, or is not JSON at all.
plan_tasks_node(json, task_plan) ==
  /\ orch.node = "plan_tasks"
  /\ orch' = [orch EXCEPT !.node = "execute_task",
                          !.state.task_plan = IF json THEN task_plan ELSE <<>>,
                          !.state.current_task_index = 0,
                          !.state.task_results = <<>>,
                          !.state.messages = Append(@, "Created execution plan")]
  /\ UNCHANGED <<now, exchangerSet, asgActor, brokerActor, sessions, audit_log,
                 calls, task, issuedActor, failedCallbacks, onboardVars, executorVars>>

\* execute_task_node and the conditional edge behind it. The target_scopes
\* argument is evaluated before exchange_token_for_agent is called: when it
\* raises, the except clause records the task as failed; had it a value, the
\* exchange would be requested with it (lines 203-239, which are then awaited).
execute_task_node ==
  /\ orch.node = "execute_task"
  /\ LET s == orch.state
         task_idx == s.current_task_index
     IN IF task_idx >= Len(s.task_plan)
        THEN orch' = [orch EXCEPT !.node = should_continue_execution(s)]
        ELSE LET current_task == s.task_plan[task_idx + 1]
                 agent_key == TaskAgentKey(s.available_agents, current_task)
                 agent_scopes == AgentScopes(agent_key)
                 target_scopes == ListGet(agent_scopes, agent_key)
                 after == [s EXCEPT !.current_task_index = NextTaskIndex(task_idx),
                                    !.task_results =
                                       Append(@, [step |-> current_task.step,
                                                  agent |-> current_task.agent_name,
                                                  task |-> current_task.task,
                                                  result |-> target_scopes.err,
                                                  success |-> FALSE]),
                                    !.messages = Append(@, "Completed: " \o current_task.task)]
             IN IF target_scopes.raised
                THEN orch' = [orch EXCEPT !.node = should_continue_execution(after),
                                          !.state = after]
                ELSE orch' = [orch EXCEPT !.node = "exchange",
                                !.requested =
                                   Append(@, [source_token |-> s.access_token,
                                              agent_key |-> agent_key,
                                              target_audience |->
                                                 AgentAudience(current_task.agent_name),
                                              target_scopes |-> target_scopes.value])]
  /\ UNCHANGED <<now, exchangerSet, asgActor, brokerActor, sessions, audit_log,
                 calls, task, issuedActor, failedCallbacks, onboardVars, executorVars>>

\* aggregate_results_node, and the edge to END.
aggregate_results_node ==
  /\ orch.node = "aggregate"
  /\ orch' = [orch EXCEPT !.node = "end",
                !.state.final_response =
                   [i \in DOMAIN orch.state.task_results |->
                      [mark |-> IF orch.state.task_results[i].success THEN "ok" ELSE "failed",
                       step |-> orch.state.task_results[i].step,
                       agent |-> orch.state.task_results[i].agent,
                       task |-> orch.state.task_results[i].task,
                       result |-> orch.state.task_results[i].result]]]
  /\ UNCHANGED <<now, exchangerSet, asgActor, brokerActor, sessions, audit_log,
                 calls, task, issuedActor, failedCallbacks, onboardVars, executorVars>>

\* create_orchestrator_graph, run once with the delegated token of a session.
NextOrchestrator ==
  \/ run_orchestrator_workflow("onboard", Tok("delegated", 1))
  \/ \E n \in {0, 2, 3} : discover_agents_node(SubSeq(AgentCards, 1, n))
  \/ \E json \in BOOLEAN, task_plan \in TaskPlans : plan_tasks_node(json, task_plan)
  \/ execute_task_node
  \/ aggregate_results_node

SpecOrchestrator == InitWorkflow /\ [][NextOrchestrator]_vars

\* graph.ainvoke runs the graph until END.
SpecOrchestratorRun == SpecOrchestrator /\ WF_vars(NextOrchestrator)

\* ------------------------------------------------------------ properties
\* The step in which caller p starts a call of op.
Starts(p, op) ==
  /\ Free(p)
  /\ calls' = calls + 1
  /\ task'[p].op = op
  /\ task'[p].call = calls + 1

\* The step in which p's running coroutine of op ends.
Ends(p, op) == task[p].op = op /\ ~Free(p) /\ task'[p].pc = "done"

\* The step in which p's coroutine of op sends a request of this kind.
Sends(p, op, kind) ==
  /\ task'[p].op = op
  /\ task'[p].req.kind = kind
  /\ task'[p].req # task[p].req

\* The step in which a flow for the orchestrator's identity hands its token over.
OrchestratorFlowSucceeds(p) ==
  /\ task[p].pc = "flow_exit"
  /\ task[p].op \in {"initialize", "handle_callback"}
  /\ task[p].err = ""
  /\ task[p].actor # None
  /\ task'[p].pc # "flow_exit"

\* C1: an orchestrator actor token is never used past its expiry: the token
\* handle_callback passes to the code exchange, and the cached token
\* get_actor_token returns without a flow, have expires_at later than now.
C1_ActorTokenUsedOnlyBeforeExpiry ==
  [][\A p \in Procs :
       /\ Sends(p, "handle_callback", "code_exchange")
            => task'[p].used_actor[1].expires_at > now
       /\ (Starts(p, "initialize") /\ task'[p].pc = "done")
            => (asgActor # None /\ asgActor[1].expires_at > now)]_vars

\* C2: every write of a delegated token to a session is made by a step that also
\* appends a delegated_token_obtained entry, whatever the response's scope holds.
C2_StoredTokenHasAuditEntry ==
  [][\A id \in DOMAIN sessions :
       sessions'[id].delegated_token # sessions[id].delegated_token
         => /\ Len(audit_log') = Len(audit_log) + 1
            /\ audit_log'[Len(audit_log')].operation = "delegated_token_obtained"]_vars

\* C3: every call of exchange_token_for_agent whose agent_key is in the agent
\* configuration appends exactly one audit entry when it ends: token_exchange
\* with success on a return, token_exchange_failed with the error text on a raise.
C3_ConfiguredAgentCallIsAudited ==
  [][\A p \in Procs :
       ((Ends(p, "exchange_token_for_agent")
           \/ (Starts(p, "exchange_token_for_agent") /\ task'[p].pc = "done"))
        /\ task'[p].agent_key \in DOMAIN agents_config)
         => /\ Len(audit_log') = Len(audit_log) + 1
            /\ LET e == audit_log'[Len(audit_log')]
               IN /\ e.success = (task'[p].err = "")
                  /\ e.operation = IF task'[p].err = "" THEN "token_exchange"
                                   ELSE "token_exchange_failed"
                  /\ e.error = IF task'[p].err = "" THEN NoneStr
                               ELSE task'[p].err
                  /\ Ends(p, "exchange_token_for_agent")
                       => /\ e.target_service = task[p].target_audience
                          /\ e.scopes = task[p].target_scopes]_vars

\* C4: a handle_callback that fails because the actor token cannot be obtained or
\* because the provider rejects the code exchange raises that error to its caller
\* and leaves every session as it was; a session changes only in the step of a
\* callback whose code exchange succeeded.
C4_FailedCallbackLeavesSession ==
  [][/\ \A p \in Procs :
          (Ends(p, "handle_callback") /\ task[p].err # "")
            => (task'[p].err = task[p].err /\ sessions' = sessions)
     /\ \A id \in DOMAIN sessions :
          sessions'[id] # sessions[id]
            => \E p \in Procs : /\ task[p].pc = "code_exit"
                                /\ task[p].err = ""
                                /\ task[p].state = id]_vars

C4_Witness ==
  \E p \in Procs :
    /\ task[p].op = "handle_callback"
    /\ task[p].pc = "done"
    /\ task[p].err = "HTTPStatusError"
    /\ sessions[task[p].state].delegated_token # None

\* C5: a broker operation in which a provider-facing step failed appends an audit
\* entry with success = FALSE carrying the error, and raises the error.
C5_ProviderFailureIsAudited ==
  [][\A p \in Procs :
       ((Ends(p, "handle_callback") \/ Ends(p, "exchange_token_for_agent"))
        /\ task[p].err # "")
         => /\ task'[p].err = task[p].err
            /\ Len(audit_log') = Len(audit_log) + 1
            /\ audit_log'[Len(audit_log')].success = FALSE
            /\ audit_log'[Len(audit_log')].error = task[p].err]_vars

\* C6: the orchestrator's actor-token slots are written only with the token of a
\* flow whose EXCHANGE step succeeded (or, for the broker's slot, with the token
\* the client has cached); a flow that failed at any step leaves both slots as
\* they were.
C6_SlotWrittenOnlyAfterExchange ==
  [][/\ asgActor' # asgActor
          => \E p \in Procs : OrchestratorFlowSucceeds(p) /\ asgActor' = task[p].actor
     /\ brokerActor' # brokerActor
          => \/ \E p \in Procs :
                  OrchestratorFlowSucceeds(p) /\ brokerActor' = task[p].actor
             \/ (asgActor # None /\ brokerActor' = asgActor)
     /\ \A p \in Procs :
          (task[p].pc = "flow_exit" /\ task[p].err # "")
            => task[p].actor = None]_vars

C6_Witness ==
  \E p \in Procs :
    /\ task[p].op = "initialize"
    /\ task[p].pc = "done"
    /\ task[p].err = "Auth code not found in response"
    /\ asgActor # None
    /\ asgActor[1].expires_at <= now

\* The orchestrator's cached token is present and its expires_at is in the future.
OrchestratorTokenUnexpired == asgActor # None /\ asgActor[1].expires_at > now

\* The step in which p's call reaches get_actor_token: initialize always does,
\* handle_callback does when the broker's slot is empty.
GetActorTokenCalled(p) ==
  \/ Starts(p, "initialize")
  \/ /\ Starts(p, "handle_callback")
     /\ task'[p].state \in DOMAIN sessions
     /\ brokerActor = None

\* C7: a call of get_actor_token made while the cached token's expires_at is in
\* the future starts no flow; a call made with no token or after expires_at starts
\* exactly one flow, whose success replaces the slot with the flow's token; a
\* flow for the orchestrator starts in no other step.
C7_FlowStartsOnlyWhenCacheExpired ==
  [][\A p \in Procs :
       /\ (GetActorTokenCalled(p) /\ OrchestratorTokenUnexpired)
            => (task'[p].req.kind # "initiate" /\ task'[p].pc # "initiate")
       /\ (GetActorTokenCalled(p) /\ ~OrchestratorTokenUnexpired)
            => (task'[p].req.kind = "initiate" /\ task'[p].pc = "initiate")
       /\ (Sends(p, "initialize", "initiate") \/ Sends(p, "handle_callback", "initiate"))
            => (GetActorTokenCalled(p) /\ ~OrchestratorTokenUnexpired)
       /\ OrchestratorFlowSucceeds(p)
            => asgActor' = task[p].actor]_vars

C7_Witness ==
  \E p \in Procs :
    /\ task[p].op = "initialize"
    /\ task[p].pc = "flow_exit"
    /\ task[p].err = ""
    /\ asgActor # None
    /\ asgActor[1].expires_at <= now

\* C8: a call of exchange_token_for_agent starts the three-step flow for an agent
\* only when no unexpired actor token has been issued for that agent.
C8_AgentActorTokenReused ==
  [][\A p \in Procs :
       (Starts(p, "exchange_token_for_agent") /\ task'[p].req.kind = "initiate")
         => \/ issuedActor[task'[p].agent_id] = None
            \/ issuedActor[task'[p].agent_id][1].expires_at <= now]_vars

\* C9: handle_callback with a state that matches no session and
\* get_authorization_url with a session_id that matches no session end in the
\* step that starts them with a session-not-found error: no request is sent, no
\* audit entry is appended, and the sessions and both slots are unchanged.
C9_UnknownSessionRejected ==
  [][\A p \in Procs :
       /\ (Starts(p, "handle_callback") /\ task'[p].state \notin DOMAIN sessions)
            => /\ task'[p].pc = "done"
               /\ task'[p].err = "Session not found"
               /\ task'[p].req.kind = ""
               /\ UNCHANGED <<audit_log, sessions, asgActor, brokerActor>>
       /\ (Free(p) /\ task'[p] # task[p] /\ task'[p].op = "get_authorization_url"
           /\ task'[p].state \notin DOMAIN sessions)
            => /\ task'[p].pc = "done"
               /\ task'[p].err = "Session not found"
               /\ task'[p].ret = None
               /\ task'[p].req.kind = ""
               /\ UNCHANGED <<audit_log, sessions, asgActor, brokerActor>>]_vars

C9_Witness ==
  \E p, q \in Procs :
    /\ task[p].op = "handle_callback"
    /\ task[p].state \notin DOMAIN sessions
    /\ task[p].err = "Session not found"
    /\ task[q].op = "get_authorization_url"
    /\ task[q].state \notin DOMAIN sessions
    /\ task[q].err = "Session not found"
    /\ audit_log = <<>>

\* C10: exchange_token_for_agent with an agent_key that is not in the agent
\* configuration ends in the step that starts it with an unknown-agent error: no
\* request is sent, no audit entry is appended and no broker state changes.
C10_UnknownAgentRejected ==
  [][\A p \in Procs :
       (Starts(p, "exchange_token_for_agent")
        /\ task'[p].agent_key \notin DOMAIN agents_config)
         => /\ task'[p].pc = "done"
            /\ task'[p].err = "Unknown agent"
            /\ task'[p].req.kind = ""
            /\ UNCHANGED <<audit_log, sessions, asgActor, brokerActor, issuedActor>>]_vars

C10_Witness ==
  \E p \in Procs :
    /\ task[p].op = "exchange_token_for_agent"
    /\ task[p].pc = "done"
    /\ task[p].agent_key \notin DOMAIN agents_config
    /\ task[p].err = "Unknown agent"

\* C11: a session that holds a delegated token is terminal: no step changes its
\* delegated_token or its token_expires_at.
C11_SessionWrittenAtMostOnce ==
  [][\A id \in DOMAIN sessions :
       sessions[id].delegated_token # None
         => /\ sessions'[id].delegated_token = sessions[id].delegated_token
            /\ sessions'[id].token_expires_at = sessions[id].token_expires_at]_vars

\* C12: once a handle_callback for a session has failed with the error of the
\* actor-token flow or of the code exchange, no step stores a delegated token in
\* that session.
C12_FailedSessionStaysFailed ==
  [][\A id \in DOMAIN sessions :
       id \in failedCallbacks
         => sessions'[id].delegated_token = sessions[id].delegated_token]_vars

\* C13: of two handle_callback calls for one session that ran concurrently and
\* whose code exchanges both succeeded, the one that resumes after the other has
\* returned neither writes the session nor appends an audit entry.
C13_OneConcurrentCallbackWrites ==
  [][\A p, q \in Procs :
       (/\ p # q
        /\ task[p].op = "handle_callback"
        /\ task[p].pc = "done"
        /\ task[p].ret # None
        /\ task[p].call > task[q].call
        /\ task[q].op = "handle_callback"
        /\ task[q].state = task[p].state
        /\ task[q].pc = "code_exit"
        /\ task[q].err = ""
        /\ task'[q].pc = "done")
         => (sessions' = sessions /\ audit_log' = audit_log)]_vars

\* C14: with concurrent get_actor_token / initialize calls, a caller whose flow
\* succeeded leaves with the token its own flow was issued, and that token is what
\* both slots hold after its step; a slot changes in no other way than to the token
\* of a flow that succeeded; a flow that failed leaves both slots as they are.
C14_ConcurrentFlowsKeepSlotSound ==
  [][\A p \in Procs :
       /\ OrchestratorFlowSucceeds(p)
            => /\ task[p].actor[1].token = Tok("actor", task[p].call)
               /\ task[p].actor[1].actor_id = orchestrator_agent_id
               /\ asgActor' = task[p].actor
               /\ brokerActor' = task[p].actor
       /\ (task[p].pc = "flow_exit" /\ task[p].err # "" /\ task'[p].pc = "done")
            => UNCHANGED <<asgActor, brokerActor>>
       /\ (asgActor' # asgActor /\ asgActor' # None)
            => \E q \in Procs : /\ OrchestratorFlowSucceeds(q)
                                /\ asgActor'[1].token = Tok("actor", task[q].call)]_vars

\* Two initialize calls ran their own flows concurrently: the later one has
\* stored its token, the earlier one's flow has failed and is about to return.
C14_Witness ==
  /\ task[1].op = "initialize"
  /\ task[1].pc = "flow_exit"
  /\ task[1].err # ""
  /\ task[2].op = "initialize"
  /\ task[2].pc = "done"
  /\ task[2].err = ""
  /\ asgActor # None
  /\ asgActor[1].token = Tok("actor", task[2].call)
  /\ brokerActor = asgActor

\* C15: handle_callback sends the code exchange only with the orchestrator's
\* actor token, the one the broker's slot holds, and with the session's verifier;
\* a callback that finds the slot empty and no valid cached token starts the
\* three-step flow first, and when that flow fails the callback ends with the
\* flow's error and sends nothing.
C15_CodeExchangeCarriesActorToken ==
  [][\A p \in Procs :
       /\ Sends(p, "handle_callback", "code_exchange")
            => /\ brokerActor' # None
               /\ brokerActor'[1].actor_id = orchestrator_agent_id
               /\ task'[p].req.actor_token.kind = "actor"
               /\ task'[p].req.actor_token = brokerActor'[1].token
               /\ task'[p].req.code_verifier = sessions[task'[p].state].pkce.verifier
       /\ (/\ Starts(p, "handle_callback")
           /\ task'[p].state \in DOMAIN sessions
           /\ brokerActor = None
           /\ ~OrchestratorTokenUnexpired)
            => task'[p].req.kind = "initiate"
       /\ (/\ task[p].op = "handle_callback"
           /\ task[p].pc = "flow_exit"
           /\ task[p].err # ""
           /\ task'[p] # task[p])
            => /\ task'[p].pc = "done"
               /\ task'[p].err = task[p].err
               /\ task'[p].req.kind = ""]_vars

\* A callback that found the slot empty has run the flow and sent the exchange.
C15_Witness ==
  \E p \in Procs :
    /\ task[p].op = "handle_callback"
    /\ task[p].req.kind = "code_exchange"
    /\ task[p].req.actor_token = Tok("actor", task[p].call)
    /\ brokerActor # None
    /\ brokerActor[1].token = Tok("actor", task[p].call)

\* The startup call of initialize() has raised.
StartupFailed ==
  \E q \in Procs : /\ task[q].op = "initialize"
                   /\ task[q].call = 1
                   /\ task[q].pc = "done"
                   /\ task[q].err # ""

\* C16: an initialize() whose flow failed raises the flow's error to its caller,
\* and after the startup initialize() has raised the application serves no login
\* and no callback request.
C16_FailedStartupServesNothing ==
  [][\A p \in Procs :
       /\ (Ends(p, "initialize") /\ task[p].err # "")
            => task'[p].err = task[p].err
       /\ (/\ Free(p)
           /\ task'[p] # task[p]
           /\ task'[p].op \in {"get_authorization_url", "handle_callback"})
            => ~StartupFailed]_vars

\* p's coroutine awaits the answer of one of the flow's three requests.
InFlow(p) == task[p].pc \in {"initiate", "authenticate", "exchange"}

\* C17: within one flow the requests go out in the order INITIATE, AUTHENTICATE,
\* EXCHANGE: INITIATE only when the call starts, each later request only from the
\* answer of the one before; a step that fails leaves the flow with its error,
\* no request and no ActorToken, and the call then ends without another request.
C17_FlowStepsInOrderNoRetry ==
  [][\A p \in Procs :
       task'[p] # task[p]
         => /\ task'[p].pc = "initiate"
                 => (Free(p) /\ task'[p].req.kind = "initiate")
            /\ task'[p].pc = "authenticate"
                 => (task[p].pc = "initiate" /\ task'[p].req.kind = "authenticate")
            /\ task'[p].pc = "exchange"
                 => (task[p].pc = "authenticate"
                     /\ task'[p].req.kind = "actor_exchange")
            /\ (InFlow(p) /\ task'[p].err # "")
                 => /\ task'[p].pc = "flow_exit"
                    /\ task'[p].req.kind = ""
                    /\ task'[p].actor = None
            /\ (task'[p].actor # None /\ task[p].actor = None)
                 => (task[p].pc = "exchange" /\ task'[p].err = "")
            /\ (task[p].pc = "flow_exit" /\ task[p].err # "")
                 => (task'[p].pc = "done" /\ task'[p].req.kind = "")]_vars

\* A flow has failed at AUTHENTICATE and is left without a token.
C17_Witness ==
  \E p \in Procs :
    /\ task[p].pc = "flow_exit"
    /\ task[p].err = "Authentication failed"
    /\ task[p].actor = None
    /\ task[p].req.kind = ""

\* C18: an INITIATE answer that carries no flow identifier ends the flow with an
\* error: AUTHENTICATE is sent only with a flow identifier.
C18_NoFlowIdNoAuthenticate ==
  [][\A p \in Procs :
       (task[p].pc = "initiate" /\ task'[p].pc = "authenticate")
         => Truthy(task'[p].req.flowId)]_vars

\* C19: the step that follows an AUTHENTICATE answer either sends EXCHANGE with an
\* authorization code, or leaves the flow with an authentication error and sends
\* nothing.
C19_ExchangeOnlyWithCode ==
  [][\A p \in Procs :
       (task[p].pc = "authenticate" /\ task'[p] # task[p])
         => \/ /\ task'[p].pc = "exchange"
               /\ task'[p].req.kind = "actor_exchange"
               /\ Truthy(task'[p].req.code)
               /\ task'[p].err = ""
            \/ /\ task'[p].pc = "flow_exit"
               /\ task'[p].req.kind = ""
               /\ task'[p].err \in {"Auth code not found in redirect",
                                    "Auth code not found in response",
                                    "Authentication failed"}]_vars

\* C20: a token-exchange request of exchange_token_for_agent carries the token
\* exchanger's client id and secret, never the orchestrator's, the call's own
\* source_token as subject_token, and as actor_token the token this call's flow
\* was issued for the requested agent's identity.
C20_ExchangeRequestIsTheCallsOwn ==
  [][\A p \in Procs :
       Sends(p, "exchange_token_for_agent", "token_exchange")
         => /\ Truthy(task'[p].req.client_id)
            /\ task'[p].req.client_id = token_exchanger_client_id
            /\ task'[p].req.client_secret = token_exchanger_client_secret
            /\ task'[p].req.client_id # orchestrator_client_id
            /\ task'[p].req.client_secret # orchestrator_client_secret
            /\ task'[p].req.subject_token = task[p].source_token
            /\ task'[p].req.audience = task[p].target_audience
            /\ task[p].actor # None
            /\ task'[p].req.actor_token = task[p].actor[1].token
            /\ task'[p].req.actor_token = Tok("actor", task[p].call)
            /\ task[p].actor[1].actor_id = agents_config[task[p].agent_key].agent_id]_vars

\* Two calls for different agents run concurrently: one has sent its token
\* exchange, the other holds its own actor token.
C20_Witness ==
  \E p, q \in Procs :
    /\ task[p].op = "exchange_token_for_agent"
    /\ task[p].req.kind = "token_exchange"
    /\ task[q].op = "exchange_token_for_agent"
    /\ task[q].pc = "flow_exit"
    /\ task[q].actor # None
    /\ task[q].agent_key # task[p].agent_key

\* C21: an exchange_token_for_agent whose flow and token exchange both succeeded
\* returns the provider's access_token as it was answered, and the step in which
\* it returns appends its entry as the last of the audit log: token_exchange,
\* target_service = target_audience, scopes = target_scopes, success = TRUE.
C21_ExchangeReturnsProviderToken ==
  [][\A p \in Procs :
       (Ends(p, "exchange_token_for_agent") /\ task'[p].err = "")
         => /\ task[p].pc = "token_exit"
            /\ task[p].resp = Some(Tok("exchanged", task[p].call))
            /\ task'[p].ret = task[p].resp
            /\ Len(audit_log') = Len(audit_log) + 1
            /\ LET e == audit_log'[Len(audit_log')]
               IN /\ e.operation = "token_exchange"
                  /\ e.target_service = task[p].target_audience
                  /\ e.scopes = task[p].target_scopes
                  /\ e.success = TRUE]_vars

\* A call for it_agent has returned its exchanged token and its entry is the last.
C21_Witness ==
  \E p \in Procs :
    /\ task[p].op = "exchange_token_for_agent"
    /\ task[p].pc = "done"
    /\ task[p].agent_key = "it_agent"
    /\ task[p].ret = Some(Tok("exchanged", task[p].call))
    /\ Len(audit_log) > 0
    /\ audit_log[Len(audit_log)].target_service = "it-api"
    /\ audit_log[Len(audit_log)].scopes = <<"it:read", "it:write">>
    /\ audit_log[Len(audit_log)].success = TRUE

\* C22: a handle_callback whose code exchange succeeded returns the session
\* named by state, holding the response's access_token and expiry, and the step
\* in which it returns appends a delegated_token_obtained entry with success.
C22_CallbackReturnsDelegatedSession ==
  [][\A p \in Procs :
       (/\ task[p].op = "handle_callback"
        /\ task[p].pc = "code_exit"
        /\ task[p].err = ""
        /\ task'[p] # task[p])
         => /\ task'[p].pc = "done"
            /\ task'[p].err = ""
            /\ task'[p].ret = Some(task[p].state)
            /\ sessions'[task[p].state].delegated_token
                 = Some(task[p].resp[1].access_token)
            /\ sessions'[task[p].state].token_expires_at
                 = Some(task[p].resp[1].expires_at)
            /\ Len(audit_log') = Len(audit_log) + 1
            /\ audit_log'[Len(audit_log')].operation = "delegated_token_obtained"
            /\ audit_log'[Len(audit_log')].success = TRUE]_vars

\* C23: the authorization URL of a session carries the challenge of the
\* session's PKCE pair, state = the session id and requested_actor = the
\* orchestrator's agent id; the code exchange of a callback carries the verifier
\* of the pair of the session named by state, which is the verifier of that
\* challenge and of no other session.
C23_PkcePairStaysWithItsSession ==
  [][\A p \in Procs :
       /\ (/\ Free(p)
           /\ task'[p] # task[p]
           /\ task'[p].op = "get_authorization_url"
           /\ task'[p].ret # None)
            => LET url == task'[p].ret[1]
                   id == task'[p].state
               IN /\ url.state = id
                  /\ url.requested_actor = orchestrator_agent_id
                  /\ url.code_challenge = sessions[id].pkce.challenge
                  /\ url.code_challenge_method = "S256"
       /\ Sends(p, "handle_callback", "code_exchange")
            => LET id == task'[p].state
                   verifier == task'[p].req.code_verifier
               IN /\ verifier = sessions[id].pkce.verifier
                  /\ S256(verifier) = sessions[id].pkce.challenge
                  /\ \A other \in DOMAIN sessions \ {id} :
                       sessions[other].pkce.verifier # verifier]_vars

\* With two sessions made, the URL of the second has been issued and a callback
\* for it has sent its code exchange.
C23_Witness ==
  \E p, q \in Procs :
    /\ Len(sessions) = 2
    /\ task[p].op = "handle_callback"
    /\ task[p].state = 2
    /\ task[p].req.kind = "code_exchange"
    /\ task[q].op = "get_authorization_url"
    /\ task[q].state = 2
    /\ task[q].ret # None

\* C24: get_authorization_url returns a URL only for a non-empty scope list, and
\* the URL's scope parameter is then the requested scopes followed by openid and
\* profile, joined by spaces.
C24_EmptyScopesRejected ==
  [][\A p \in Procs :
       (/\ Free(p)
        /\ task'[p] # task[p]
        /\ task'[p].op = "get_authorization_url"
        /\ task'[p].ret # None)
         => task'[p].ret[1].scope = "hr:read openid profile"]_vars

\* C25: a session that exists exists in every later state under the same id, and
\* get_session(id) returns it with the session_id and the PKCE pair it was made
\* with.
C25_SessionsKeptWithIdentity ==
  [][\A id \in DOMAIN sessions :
       /\ id \in DOMAIN sessions'
       /\ get_session(id) # None
       /\ get_session(id)' # None
       /\ get_session(id)'[1].session_id = id
       /\ get_session(id)[1].session_id = id
       /\ get_session(id)'[1].pkce = get_session(id)[1].pkce]_vars

\* Two sessions exist and the first has been through a successful callback.
C25_Witness ==
  /\ Len(sessions) = 2
  /\ get_session(1) # None
  /\ get_session(1)[1].delegated_token # None
  /\ get_session(2) # None
  /\ get_session(2)[1].delegated_token = None

\* C26: the audit log is append-only: after every step the log of before is a
\* prefix of the log, entry for entry.
C26_AuditLogAppendOnly ==
  [][/\ Len(audit_log') >= Len(audit_log)
     /\ SubSeq(audit_log', 1, Len(audit_log)) = audit_log]_vars

\* A failed exchange and then a successful one have each left their entry.
C26_Witness ==
  /\ Len(audit_log) = 2
  /\ audit_log[1].operation = "token_exchange_failed"
  /\ audit_log[1].success = FALSE
  /\ audit_log[2].operation = "token_exchange"
  /\ audit_log[2].success = TRUE

\* The space-joined scope parameter of the scope lists that are passed.
JoinedScope(scopes) ==
  CASE scopes = <<"hr:write">> -> "hr:write"
    [] scopes = <<"it:read", "it:write">> -> "it:read it:write"
    [] OTHER -> NoneStr

\* C27: the form data perform_token_exchange posts has grant_type token-exchange,
\* the subject_token with its type and the given client id and secret; it has
\* actor_token and actor_token_type exactly when an actor token was passed; it
\* has the audience passed and the scopes passed joined by spaces.
C27_TokenExchangeFormData ==
  [][\A p \in Procs :
       Sends(p, "perform_token_exchange", "token_exchange")
         => LET t == task'[p]
                r == task'[p].req
            IN /\ r.grant_type = "urn:ietf:params:oauth:grant-type:token-exchange"
               /\ r.subject_token = t.source_token
               /\ r.subject_token # NoTok
               /\ r.subject_token_type = "urn:ietf:params:oauth:token-type:access_token"
               /\ r.client_id = t.client_id
               /\ r.client_secret = t.client_secret
               /\ (t.actor = None) <=> (r.actor_token = NoTok)
               /\ (t.actor = None) <=> (r.actor_token_type = NoneStr)
               /\ t.actor # None
                    => /\ r.actor_token = t.actor[1].token
                       /\ r.actor_token_type
                            = "urn:ietf:params:oauth:token-type:access_token"
               /\ r.audience = t.target_audience
               /\ r.scope = JoinedScope(t.target_scopes)]_vars

\* A request without an actor token and with two scopes is on the wire.
C27_Witness ==
  \E p \in Procs :
    /\ task[p].op = "perform_token_exchange"
    /\ task[p].req.kind = "token_exchange"
    /\ task[p].actor = None
    /\ task[p].req.actor_token_type = NoneStr
    /\ task[p].req.audience = "hr-api"
    /\ task[p].req.scope = "it:read it:write"

\* C28: every session has delegated_token set exactly when token_expires_at is
\* set, and a step that changes either of them writes both from the token
\* response of one callback for that session.
C28_TokenAndExpiryFromOneResponse ==
  [][\A id \in DOMAIN sessions' :
       /\ (sessions'[id].delegated_token = None)
            <=> (sessions'[id].token_expires_at = None)
       /\ (/\ id \in DOMAIN sessions
           /\ \/ sessions'[id].delegated_token # sessions[id].delegated_token
              \/ sessions'[id].token_expires_at # sessions[id].token_expires_at)
            => \E p \in Procs :
                 /\ task[p].op = "handle_callback"
                 /\ task[p].state = id
                 /\ task[p].resp # None
                 /\ sessions'[id].delegated_token
                      = Some(task[p].resp[1].access_token)
                 /\ sessions'[id].token_expires_at
                      = Some(task[p].resp[1].expires_at)]_vars

\* A session holds the token and expiry of one callback while a second callback
\* for the same session has received a response with another token and expiry.
C28_Witness ==
  \E id \in DOMAIN sessions, p \in Procs :
    /\ sessions[id].delegated_token # None
    /\ task[p].op = "handle_callback"
    /\ task[p].pc = "code_exit"
    /\ task[p].state = id
    /\ task[p].resp # None
    /\ sessions[id].delegated_token[1] # task[p].resp[1].access_token
    /\ sessions[id].token_expires_at[1] # task[p].resp[1].expires_at

\* C29: a step changes a session only as the handle_callback whose state is that
\* session's id; get_delegated_token(id) is None for an unknown id and for a
\* session no callback has completed, and when its value changes the new value
\* is the token of a handle_callback whose state is id.
C29_CallbackWritesOnlyItsSession ==
  [][\A id \in 0..(MaxSessions + 1) :
       /\ id \notin DOMAIN sessions => get_delegated_token(id) = None
       /\ id \notin DOMAIN sessions' => get_delegated_token(id)' = None
       /\ (id \in DOMAIN sessions /\ sessions'[id] # sessions[id])
            => \E p \in Procs : /\ Ends(p, "handle_callback")
                                /\ task[p].state = id
       /\ (id \in DOMAIN sessions' /\ id \notin DOMAIN sessions)
            => get_delegated_token(id)' = None
       /\ get_delegated_token(id)' # get_delegated_token(id)
            => \E p \in Procs :
                 /\ Ends(p, "handle_callback")
                 /\ task[p].state = id
                 /\ task[p].resp # None
                 /\ get_delegated_token(id)'
                      = Some(task[p].resp[1].access_token)]_vars

\* The first session's callback has stored its token; the second session's
\* callback holds a token response it has not stored yet.
C29_Witness ==
  \E p \in Procs :
    /\ get_delegated_token(1) # None
    /\ get_delegated_token(2) = None
    /\ get_delegated_token(MaxSessions + 1) = None
    /\ 2 \in DOMAIN sessions
    /\ task[p].op = "handle_callback"
    /\ task[p].state = 2
    /\ task[p].pc = "code_exit"
    /\ task[p].resp # None

\* C30: with the token-exchanger client id or secret not configured, a call of
\* exchange_token_for_agent for an agent key of the configuration sends no
\* token-exchange request, ends raising the missing-credential error, and
\* appends exactly one token_exchange_failed entry with success = false.
C30_MissingExchangerRaisesAndAudits ==
  [][ExchangerMissing
       => \A p \in Procs :
            /\ ~Sends(p, "exchange_token_for_agent", "token_exchange")
            /\ ((Ends(p, "exchange_token_for_agent")
                   \/ (Starts(p, "exchange_token_for_agent") /\ task'[p].pc = "done"))
                /\ task'[p].agent_key \in DOMAIN agents_config)
                 => /\ task'[p].err \in {"TOKEN_EXCHANGER required", "Missing agent_id"}
                    /\ Len(audit_log') = Len(audit_log) + 1
                    /\ audit_log'[Len(audit_log')].operation = "token_exchange_failed"
                    /\ audit_log'[Len(audit_log')].success = FALSE]_vars

\* C31: POST /api/onboard with a session_id starts the workflow only when the
\* session exists and holds a delegated token whose token_expires_at is in the
\* future; otherwise it answers 401 and no workflow runs.
C31_OnboardNeedsUnexpiredToken ==
  [][(onboarding'.requests = onboarding.requests + 1 /\ onboarding'.session_id # None)
       => LET id == onboarding'.session_id[1]
              valid == /\ id \in DOMAIN sessions
                       /\ sessions[id].delegated_token # None
                       /\ sessions[id].token_expires_at # None
                       /\ sessions[id].token_expires_at[1] > now
          IN IF valid
             THEN /\ onboarding'.node = "intake"
                  /\ onboarding'.state.composite_token = sessions[id].delegated_token[1]
             ELSE /\ onboarding'.response = 401
                  /\ onboarding'.node = onboarding.node
                  /\ onboarding'.state = onboarding.state]_vars

\* The API call a step of the workflow sends, if it sends one.
SendsApiCall == api_calls' # api_calls

\* C32: every downstream API call of a worker agent carries the token that the
\* worker's own exchange_token_for_agent call has returned, never the composite
\* token; a worker whose exchange raises sends nothing and returns status failed.
C32_WorkersSendExchangedToken ==
  [][/\ SendsApiCall
          => LET c == api_calls'[Len(api_calls')]
                 t == task[onboarding.caller]
             IN /\ api_calls' = Append(api_calls, c)
                /\ c.node = onboarding.node
                /\ c.node \in Workers
                /\ t.op = "exchange_token_for_agent"
                /\ t.pc = "done"
                /\ t.err = ""
                /\ t.agent_key = WorkerKey(c.node)
                /\ t.ret = Some(c.token)
                /\ c.token.kind = "exchanged"
                /\ c.token # onboarding.state.composite_token
     /\ (/\ onboarding.pc = "exchange"
         /\ onboarding'.pc # "exchange"
         /\ task[onboarding.caller].err # "")
          => /\ ~SendsApiCall
             /\ onboarding'.state.status = "failed"
             /\ onboarding'.pc # "api"]_vars

\* The run is completed and the approval agents and the IT agent have called
\* their APIs, each with a token of its own.
C32_Witness ==
  /\ onboarding.state.status = "completed"
  /\ \E i, j, k \in DOMAIN api_calls :
       /\ api_calls[i].node = "hr"
       /\ api_calls[j].node = "check_approvals"
       /\ api_calls[k].node = "it"
       /\ api_calls[i].token # api_calls[j].token
       /\ api_calls[j].token # api_calls[k].token

\* C33: within a run, a status of failed stays failed, no API call is made and
\* compile_report is not reached while it is failed, so the run ends without a
\* final report; status completed is set by compile_report only.
C33_FailedRunNeverCompletes ==
  [][/\ (onboarding.state.status = "failed" /\ onboarding'.requests = onboarding.requests)
          => /\ onboarding'.state.status = "failed"
             /\ ~SendsApiCall
             /\ onboarding'.node # "compile"
             /\ onboarding'.state.final_report = FALSE
     /\ onboarding'.node = "compile" => onboarding'.state.status # "failed"
     /\ (onboarding'.state.status = "completed" /\ onboarding.state.status # "completed")
          => /\ onboarding.node = "compile"
             /\ onboarding.state.status # "failed"]_vars

\* check_approvals has failed, the graph has gone on to the IT agent, and the
\* run has ended failed without any call of the IT agent.
C33_Witness ==
  /\ onboarding.node = "end"
  /\ onboarding.state.status = "failed"
  /\ onboarding.state.final_report = FALSE
  /\ In("check_approvals", onboarding.executed)
  /\ In("it", onboarding.executed)
  /\ \A i \in DOMAIN api_calls : api_calls[i].node # "it"

\* C34: no node runs twice in a run; when the risk assessment requires approvals
\* the IT agent runs only after the approval agent has made a request for each of
\* them; the IT agent calls its API only while blocking_approvals is empty.
C34_ApprovalsBeforeProvisioning ==
  [][/\ \A i, j \in DOMAIN onboarding'.executed :
          onboarding'.executed[i] = onboarding'.executed[j] => i = j
     /\ (SendsApiCall /\ api_calls'[Len(api_calls')].node = "it")
          => /\ onboarding.state.blocking_approvals = <<>>
             /\ onboarding'.state.blocking_approvals = <<>>
     /\ (/\ In("it", onboarding'.executed)
         /\ ~In("it", onboarding.executed)
         /\ onboarding.state.risk_assessment # None
         /\ onboarding.state.risk_assessment[1].required_approvals # <<>>)
          => LET required == onboarding.state.risk_assessment[1].required_approvals
             IN /\ In("approvals", onboarding.executed)
                /\ Len(onboarding.state.approval_requests) = Len(required)
                /\ \A r \in DOMAIN required :
                     \E i \in DOMAIN api_calls :
                       /\ api_calls[i].node = "approvals"
                       /\ api_calls[i].api = "request_approval"
                       /\ onboarding.state.approval_requests[r] = "APR-" \o required[r]]_vars

\* Two approvals were requested and approved, and the IT agent has provisioned.
C34_Witness ==
  /\ Len(onboarding.state.approval_requests) = 2
  /\ onboarding.state.approvals_received = onboarding.state.approval_requests
  /\ onboarding.state.blocking_approvals = <<>>
  /\ onboarding.state.provisioned_services # <<>>
  /\ \E i, j \in DOMAIN api_calls :
       /\ i < j
       /\ api_calls[i].api = "approve_request"
       /\ api_calls[j].api = "provision_github"

\* The step in which p's handle_task_send ends.
SendEnds(p) == rpc[p].pc = "execute" /\ rpc'[p].pc = "done"

\* C35: when execute raises, handle_task_send returns the task it stores under
\* params.id: existing_task, failed, with the error text as its status message
\* and the history it had; when execute returns, the returned task is stored.
C35_ExecutorFailureIsStored ==
  [][\A p \in Procs :
       SendEnds(p)
         => /\ rpc'[p].ret # 0
            /\ _tasks'[rpc[p].id] = rpc'[p].ret
            /\ rpc'[p].outcome = "raised"
                 => /\ rpc'[p].ret = rpc[p].existing
                    /\ get_task(rpc[p].id)'[1].status.state = "failed"
                    /\ get_task(rpc[p].id)'[1].status.message
                         = Message("agent", "Error: handler error")
                    /\ get_task(rpc[p].id)'[1].history = objects[rpc[p].existing].history
                    /\ get_task(rpc[p].id)'[1].id = rpc[p].id
            /\ rpc'[p].outcome = "returned"
                 => /\ get_task(rpc[p].id)'[1] = execute(rpc[p])
                    /\ objects'[rpc'[p].ret] = execute(rpc[p])]_vars

\* A continued task has failed: it holds the first exchange and the new message.
C35_Witness ==
  \E p \in Procs :
    /\ rpc[p].pc = "done"
    /\ rpc[p].outcome = "raised"
    /\ rpc[p].prior # <<>>
    /\ get_task(rpc[p].id)[1].status.state = "failed"
    /\ Len(get_task(rpc[p].id)[1].history) = Len(rpc[p].prior) + 1

\* C36: a tasks/send for an existing task id that execute completes leaves the
\* stored task with the history it had before the call, then the new message,
\* then the agent's reply.
C36_ContinuationKeepsHistory ==
  [][\A p \in Procs :
       (SendEnds(p) /\ rpc'[p].outcome = "returned" /\ rpc[p].prior # <<>>)
         => get_task(rpc[p].id)'[1].history
              = rpc[p].prior \o <<rpc[p].message,
                                  Message("agent", "done: " \o rpc[p].message.text)>>]_vars

\* C37: a stored task that is CANCELED is still CANCELED after a
\* handle_task_send for its id, in flight at the cancel, has ended.
C37_CanceledStaysCanceled ==
  [][\A p \in Procs :
       (SendEnds(p) /\ get_task(rpc[p].id)[1].status.state = "canceled")
         => get_task(rpc[p].id)'[1].status.state = "canceled"]_vars

\* The step in which execute_task_node executes the next task of the plan.
ExecutesTask ==
  /\ orch.node = "execute_task"
  /\ orch.state.current_task_index < Len(orch.state.task_plan)
  /\ orch' # orch

C39_Scopes(agent_key) ==
  CASE agent_key = "hr_agent" -> <<"hr:read">>
    [] agent_key = "it_agent" -> <<"it:read", "it:write">>
    [] agent_key = "approval_agent" -> <<"approval:read", "approval:write">>

\* C39: a step that executes a planned task asks the broker for a token exchange
\* for the task's agent, with the agent's configured scopes or, without any, with
\* prefix:read and prefix:write.
C39_ExchangeRequestedWithAgentScopes ==
  [][ExecutesTask
       => /\ Len(orch'.requested) = Len(orch.requested) + 1
          /\ LET r == orch'.requested[Len(orch'.requested)]
                 key == AgentKey(orch.state.task_plan[orch.state.current_task_index + 1].agent_name)
             IN /\ r.agent_key = key
                /\ r.target_scopes = C39_Scopes(key)]_vars

====
